---- MODULE Spec2Model ----
(***************************************************************************)
(* Model of the monitoring worker of multisigmonitor                       *)
(* (backend/src/worker/monitor.rs, backend/src/bin/worker.rs) together     *)
(* with the parts of the API and of the indexer it depends on.             *)
(*                                                                         *)
(* A Safe group is a (safe_address, network) pair; a transaction hash is   *)
(* the pair <<group, nonce>>.  Time stamps are cycle numbers.               *)
(***************************************************************************)
EXTENDS Integers, Sequences, FiniteSets, Bags, TLC

\* ---------------------------------------------------------------- bounds
NumGroups == 2
MaxMonitors == 2
MaxTxs == 1
MaxChannels == 2
MaxConcurrency == 2
MaxCycles == 2
MaxTicks == 1
MaxFindings == 3

\* files of the transaction-analysis and of the safe-assessment directory
MaxTemplateFiles == 3
MaxAssessmentFiles == 1

\* characters of an address
AddrLen == 2

\* owners and modules of an assessed Safe
MaxOwners == 2
MaxModules == 1

\* characters of a Safe version string
MaxVersionLen == 5

\* verify requests, nonces issued, and the clock of the nonce store: its
\* last second and the longest step it advances by
MaxVerifies == 2
MaxNonces == 2
MaxTime == 1200
TimeStep == 150

\* transactions the indexer returns for the Safe whose run is followed
\* await by await
MaxStepTxs == 2

Groups == 1..NumGroups
MonitorIds == 1..MaxMonitors
TxIds == 1..MaxTxs

\* ---------------------------------------------------------------- values
\* JSON values of a settings field: key missing, null, true, false
Absent == "absent"
Null == "null"
JTrue == "true"
JFalse == "false"
\* notificationChannels that is null (MonitorSettings.notification_channels = None)
NullChannels == 0 - 1
NoMonitor == [group |-> 0]
NoMethod == "none"

RiskLevels == {"info", "low", "medium", "high", "critical"}

\* settings JSON as written by create_monitor from MonitorSettings:
\* Option<bool> fields are null, true or false; notificationChannels is
\* null or a list, of which only the length matters here.
OptBool == {Null, JTrue, JFalse}

\* the settings offered to create_monitor in the worker specification
SettingsChoices ==
    { [active |-> TRUE, notifyAll |-> JTrue, notifyManagement |-> Null, notificationChannels |-> MaxChannels],
      [active |-> TRUE, notifyAll |-> Null, notifyManagement |-> JFalse, notificationChannels |-> 0],
      [active |-> TRUE, notifyAll |-> JTrue, notifyManagement |-> JTrue, notificationChannels |-> NullChannels],
      [active |-> FALSE, notifyAll |-> JTrue, notifyManagement |-> JTrue, notificationChannels |-> 1] }

\* the transactions the indexer may come to return: method is
\* data_decoded.method, findings the level that the checks other than
\* check_owner_management amount to
TxKinds ==
    { [findings |-> "low", method |-> NoMethod],
      [findings |-> "low", method |-> "swapOwner"],
      [findings |-> "high", method |-> NoMethod] }

VARIABLES
    monitors,            \* table monitors: monitor id -> row or NoMonitor
    indexer,             \* indexer: group -> tx id -> "absent" or a transaction
    last_checks,         \* table last_checks: the monitor ids that have a row
    transactions,        \* table transactions, a bag of rows
    security_analyses,   \* table security_analyses, a set of rows
    notification_status, \* table notification_status, a bag of rows
    concurrency,         \* MonitorWorker.concurrency
    mainPc,              \* position of main() in bin/worker.rs
    tickAvail,           \* elapsed interval ticks not yet consumed
    cycle,               \* number of run_check calls started
    runResult,           \* what the last run_check returned
    queue,               \* groups of the stream not yet polled
    task,                \* group -> state of its process_safe future
    dispatchLog,         \* history: send_notifications calls and their outcome
    call,                \* pure-function specification: the call made
    ret                  \* pure-function specification: its result

workerVars == <<monitors, indexer, last_checks, transactions, security_analyses,
                notification_status, concurrency, mainPc, tickAvail, cycle,
                runResult, queue, task, dispatchLog>>
pureVars == <<call, ret>>
vars == <<monitors, indexer, last_checks, transactions, security_analyses,
          notification_status, concurrency, mainPc, tickAvail, cycle,
          runResult, queue, task, dispatchLog, call, ret>>


\* ------------------------------------------------------- pure functions

\* serde_json Value::as_bool followed by unwrap_or(default)
as_bool_or(v, default) ==
    IF v = JTrue THEN TRUE ELSE IF v = JFalse THEN FALSE ELSE default

management_methods ==
    { "addOwnerWithThreshold", "removeOwner", "swapOwner", "changeThreshold",
      "enableModule", "disableModule", "setGuard", "setFallbackHandler",
      "changeMasterCopy", "setup" }

\* the methods for which check_owner_management adds a critical P0 detail
owner_management_critical ==
    { "addOwner", "AddedOwner", "removeOwner", "RemovedOwner", "swapOwner",
      "addOwnerWithThreshold", "changeThreshold", "ChangedThreshold",
      "enableModule", "EnabledModule", "disableModule", "DisabledModule",
      "setGuard", "ChangedGuard", "setFallbackHandler", "ChangedFallbackHandler",
      "changeMasterCopy", "ChangedMasterCopy", "setup" }

\* the risk level calculate_risk_level ends on: critical when a detail is
\* critical or P0, otherwise the level of the other checks' details
\* (ExecutionFailure adds one medium detail)
analyze_transaction(method, findings) ==
    IF method \in owner_management_critical THEN "critical"
    ELSE IF method = "ExecutionFailure" /\ findings = "low" THEN "medium"
    ELSE findings

determine_alert_type(risk_level, method) ==
    IF risk_level \in {"critical", "high"} THEN "suspicious"
    ELSE IF method # NoMethod /\ method \in management_methods THEN "management"
    ELSE "normal"

\* variant: notifyManagement defaulting to false, as notifyAll does
should_notify_default_false(alert_type, settings) ==
    CASE alert_type = "suspicious" -> TRUE
      [] alert_type = "management" -> as_bool_or(settings.notifyManagement, FALSE)
      [] OTHER -> as_bool_or(settings.notifyAll, FALSE)

should_notify(alert_type, settings) ==
    CASE alert_type = "suspicious" -> TRUE
      [] alert_type = "management" -> as_bool_or(settings.notifyManagement, TRUE)
      [] OTHER -> as_bool_or(settings.notifyAll, FALSE)

\* Ok(number of channels) or Err when the value is not a list
parse_notification_channels(settings) ==
    IF settings.notificationChannels = NullChannels
    THEN [ok |-> FALSE, channels |-> 0]
    ELSE [ok |-> TRUE, channels |-> settings.notificationChannels]

\* variant: the de-duplication query finding nothing
was_notified_never(rows, transaction_hash, group) == FALSE

\* SELECT COUNT(*) FROM notification_status WHERE transaction_hash, safe_address, network
was_notified(rows, transaction_hash, group) ==
    \E r \in BagToSet(rows) : r.transaction_hash = transaction_hash /\ r.group = group

\* INSERT INTO transactions ... ON CONFLICT(safe_tx_hash, monitor_id) DO UPDATE
upsert_row(r, tx, monitor_id, now) ==
    IF r.safe_tx_hash = tx.safe_tx_hash /\ r.monitor_id = monitor_id
    THEN [r EXCEPT !.is_executed = tx.is_executed, !.updated_at = now]
    ELSE r

\* variant: the INSERT without its ON CONFLICT clause
store_transaction_insert_only(rows, tx, monitor_id, now) ==
    rows (+) SetToBag({ [safe_tx_hash |-> tx.safe_tx_hash, monitor_id |-> monitor_id,
                         is_executed |-> tx.is_executed,
                         created_at |-> now, updated_at |-> now] })

store_transaction(rows, tx, monitor_id, now) ==
    IF \E r \in BagToSet(rows) : r.safe_tx_hash = tx.safe_tx_hash /\ r.monitor_id = monitor_id
    THEN LET S == BagToSet(rows)
             T == { upsert_row(r, tx, monitor_id, now) : r \in S }
         IN [ t \in T |-> LET P == { r \in S : upsert_row(r, tx, monitor_id, now) = t }
                               cnt[Q \in SUBSET P] ==
                                   IF Q = {} THEN 0
                                   ELSE LET q == CHOOSE x \in Q : TRUE
                                        IN rows[q] + cnt[Q \ {q}]
                           IN cnt[P] ]
    ELSE rows (+) SetToBag({ [safe_tx_hash |-> tx.safe_tx_hash, monitor_id |-> monitor_id,
                              is_executed |-> tx.is_executed,
                              created_at |-> now, updated_at |-> now] })


\* INSERT INTO notification_status ... VALUES (...): a plain insert.  The
\* table's UNIQUE(transaction_hash, safe_address, network, monitor_id) is
\* declared by the migrations; with it a second insert of a key fails.
notification_status_unique == {TRUE, FALSE}

notification_row(transaction_hash, group, monitor_id, alert_type) ==
    [transaction_hash |-> transaction_hash, group |-> group,
     monitor_id |-> monitor_id, transaction_type |-> alert_type]

key_exists(rows, transaction_hash, group, monitor_id) ==
    \E r \in BagToSet(rows) : /\ r.transaction_hash = transaction_hash
                              /\ r.group = group
                              /\ r.monitor_id = monitor_id

\* the result of record_notification: Ok with the new table, or Err
record_notification(rows, transaction_hash, group, monitor_id, alert_type, unique) ==
    IF unique /\ key_exists(rows, transaction_hash, group, monitor_id)
    THEN [ok |-> FALSE, rows |-> rows]
    ELSE [ok |-> TRUE,
          rows |-> rows (+) SetToBag({notification_row(transaction_hash, group, monitor_id, alert_type)})]

\* INSERT INTO security_analyses; "UNIQUE constraint failed" is swallowed
store_security_analysis(rows, transaction_hash, group, risk, user_id) ==
    IF \E r \in rows : r.transaction_hash = transaction_hash /\ r.group = group
    THEN rows
    ELSE rows \cup { [transaction_hash |-> transaction_hash, group |-> group,
                      risk_level |-> risk, user_id |-> user_id] }

\* INSERT INTO last_checks ... ON CONFLICT(monitor_id) DO UPDATE SET checked_at, updated_at
\* (the time stamps are left out: nothing in the worker reads them)
update_last_check(rows, monitor_id) == rows \cup {monitor_id}

\* a set of monitor ids as the Vec the SELECT returns (insertion order)
RECURSIVE SortedSeq(_)
SortedSeq(S) ==
    IF S = {} THEN <<>>
    ELSE LET m == CHOOSE x \in S : \A y \in S : x <= y
         IN <<m>> \o SortedSeq(S \ {m})

\* SELECT ... FROM monitors WHERE json_extract(settings, '$.active') != false
get_active_monitors(table) ==
    { m \in MonitorIds : table[m] # NoMonitor /\ table[m].settings.active }

\* the keys of group_monitors_by_address_network and each group's monitors
group_monitors_by_address_network(table, active) ==
    [ g \in Groups |-> SortedSeq({ m \in active : table[m].group = g }) ]

\* the indexer's answer for a group: its transactions, ordered by -nonce
AbsentTx == [status |-> "absent", findings |-> "low", method |-> NoMethod]

RECURSIVE TxList(_, _, _)
TxList(g, ix, n) ==
    IF n = 0 THEN <<>>
    ELSE IF ix[n].status = "absent" THEN TxList(g, ix, n - 1)
    ELSE << [safe_tx_hash |-> <<g, n>>, is_executed |-> (ix[n].status = "executed"),
             findings |-> ix[n].findings, method |-> ix[n].method] >> \o TxList(g, ix, n - 1)

fetch_all_transactions(g) == TxList(g, indexer[g], Len(indexer[g]))

is_pending(tx) == ~tx.is_executed
pending_transactions(txs) == SelectSeq(txs, is_pending)

risk_of(tx) == analyze_transaction(tx.method, tx.findings)
alert_of(tx) == determine_alert_type(risk_of(tx), tx.method)

\* the first monitor at or after position j that opts into the alert, or 0
RECURSIVE next_opted(_, _, _)
next_opted(mons, alert_type, j) ==
    IF j > Len(mons) THEN 0
    ELSE IF should_notify(alert_type, monitors[mons[j]].settings) THEN j
    ELSE next_opted(mons, alert_type, j + 1)


\* ------------------------------------------------------------ initial state

NoCall == [fn |-> "none", a |-> "none", b |-> "none", c |-> "none"]

\* a result: a bool (should_notify) or an AlertType (determine_alert_type)
NoRet == [flag |-> FALSE, name |-> "none"]

IdleTask == [pc |-> "idle", mons |-> <<>>, txs |-> <<>>, i |-> 0, j |-> 0,
             fetched |-> FALSE, stored |-> FALSE]

WorkerInit ==
    /\ monitors = [m \in MonitorIds |-> NoMonitor]
    /\ indexer = [g \in Groups |-> [t \in TxIds |-> AbsentTx]]
    /\ last_checks = {}
    /\ transactions = EmptyBag
    /\ security_analyses = {}
    /\ notification_status = EmptyBag
    /\ concurrency \in 1..MaxConcurrency
    /\ mainPc = "start"
    /\ tickAvail = 0
    /\ cycle = 0
    /\ runResult = "none"
    /\ queue = {}
    /\ task = [g \in Groups |-> IdleTask]
    /\ dispatchLog = {}

Init ==
    /\ WorkerInit
    /\ call = NoCall
    /\ ret = NoRet

\* ------------------------------------------------- the API and the indexer

\* The worker reads the monitors once per cycle (get_active_monitors) and
\* the indexer once per group and cycle (fetch_all_transactions), so a change
\* made during a cycle is observed as one made before or after it; the API
\* and the indexer are therefore let act between cycles only.
\* Only MaxCycles cycles are followed, so what happens after the last of
\* them starts is left out.
WorkerIdle == mainPc \in {"start", "await_tick"} /\ cycle < MaxCycles

\* Groups are numbered in the order of their first monitor, and the indexer
\* is followed for monitored Safes only (the worker asks for no other).
Monitored(g) == \E m \in MonitorIds : monitors[m].group = g

\* POST /monitors: insert the monitor, then its last_checks row
create_monitor(g, s) ==
    /\ WorkerIdle
    /\ \A h \in Groups : h < g => Monitored(h)
    /\ \E m \in MonitorIds :
        /\ monitors[m] = NoMonitor
        /\ \A k \in MonitorIds : k < m => monitors[k] # NoMonitor
        /\ monitors' = [monitors EXCEPT ![m] = [group |-> g, user_id |-> m, settings |-> s]]
        /\ last_checks' = last_checks \cup {m}
    /\ UNCHANGED <<indexer, transactions, security_analyses, notification_status,
                   concurrency, mainPc, tickAvail, cycle, runResult, queue, task,
                   dispatchLog, call, ret>>

\* a new multisig transaction is proposed to the Safe of group g
SubmitTx(g, k) ==
    /\ WorkerIdle
    /\ Monitored(g)
    /\ \E t \in TxIds :
        /\ indexer[g][t].status = "absent"
        /\ \A u \in TxIds : u < t => indexer[g][u].status # "absent"
        /\ indexer' = [indexer EXCEPT ![g][t] = [status |-> "pending", findings |-> k.findings,
                                                   method |-> k.method]]
    /\ UNCHANGED <<monitors, last_checks, transactions, security_analyses, notification_status,
                   concurrency, mainPc, tickAvail, cycle, runResult, queue, task,
                   dispatchLog, call, ret>>

\* a pending transaction is executed on chain
ExecuteTx(g, t) ==
    /\ WorkerIdle
    /\ indexer[g][t].status = "pending"
    /\ indexer' = [indexer EXCEPT ![g][t].status = "executed"]
    /\ UNCHANGED <<monitors, last_checks, transactions, security_analyses, notification_status,
                   concurrency, mainPc, tickAvail, cycle, runResult, queue, task,
                   dispatchLog, call, ret>>


\* ------------------------------------------------------ main and run_check

Running == {"last_check", "fetch", "store_tx", "store_analysis", "was_notified", "send", "record"}
Finished == {"ok", "err"}
InFlight(t) == { g \in Groups : t[g].pc \in Running }
InCheck == mainPc \in {"initial_check", "scheduled_check"}

\* the loop of main reaches interval.tick() only after run_check has returned
tick_ready(pc, avail) == pc = "await_tick" /\ avail > 0

\* variant: main selecting on the tick, which drops a running run_check
on_tick_cancel(pc) == "await_tick"

\* a tick that elapses while main awaits run_check stays with the interval:
\* nothing selects on it, so main stays where it is
on_tick(pc) == pc

\* variant: every future of the stream polled at once (join_all)
buffer_unbounded(t, n) == TRUE

\* buffer_unordered(self.concurrency) polls a further future only below the limit
buffer_has_room(t, n) == Cardinality(InFlight(t)) < n

\* variant: the first Err ending the stream (process_safe(..).await?)
after_error_abort(q) == {}

\* if let Err(e) = process_safe(..) { error!(..) }: the stream goes on
after_error(q) == q

\* run_check returns res to main, which logs an Err and goes to wait for the tick
Return(res) ==
    /\ mainPc' = "await_tick"
    /\ runResult' = res

\* run_check up to the creation of the stream
BeginCheck(pcval) ==
    /\ cycle' = cycle + 1
    /\ \/ \* get_active_monitors fails
          /\ queue' = {}
          /\ task' = [g \in Groups |-> IdleTask]
          /\ Return("err")
       \/ LET active == get_active_monitors(monitors)
              groups == group_monitors_by_address_network(monitors, active)
          IN IF active = {}
             THEN /\ queue' = {}
                  /\ task' = [g \in Groups |-> IdleTask]
                  /\ Return("ok")
             ELSE /\ queue' = { g \in Groups : groups[g] # <<>> }
                  /\ task' = [g \in Groups |->
                                IF groups[g] # <<>>
                                THEN [IdleTask EXCEPT !.pc = "queued", !.mons = groups[g]]
                                ELSE IdleTask]
                  /\ mainPc' = pcval
                  /\ runResult' = "none"
    /\ UNCHANGED <<monitors, indexer, last_checks, transactions, security_analyses,
                   notification_status, concurrency, dispatchLog, call, ret>>

\* "Running initial check..."
InitialCheck ==
    /\ mainPc = "start"
    /\ tickAvail' = tickAvail
    /\ BeginCheck("initial_check")

\* interval.tick().await in the loop, then run_check
ScheduledCheck ==
    /\ tick_ready(mainPc, tickAvail)
    /\ cycle < MaxCycles
    /\ tickAvail' = tickAvail - 1
    /\ BeginCheck("scheduled_check")

\* the polling interval elapses (the interval exists once the initial check is over)
TimerFire ==
    /\ mainPc \in {"await_tick", "scheduled_check"}
    /\ cycle < MaxCycles \/ InCheck
    /\ tickAvail < MaxTicks
    /\ tickAvail' = tickAvail + 1
    /\ mainPc' = on_tick(mainPc)
    /\ UNCHANGED <<monitors, indexer, last_checks, transactions, security_analyses,
                   notification_status, concurrency, cycle, runResult, queue,
                   task, dispatchLog, call, ret>>

\* the stream polls the future of one more group
StartGroup(g) ==
    /\ InCheck
    /\ g \in queue
    /\ buffer_has_room(task, concurrency)
    /\ queue' = queue \ {g}
    /\ task' = [task EXCEPT ![g].pc = "last_check", ![g].j = 1]
    /\ UNCHANGED <<monitors, indexer, last_checks, transactions, security_analyses,
                   notification_status, concurrency, mainPc, tickAvail, cycle, runResult,
                   dispatchLog, call, ret>>

\* collect() completes: "Monitor check cycle completed", Ok(())
ReturnCheck ==
    /\ InCheck
    /\ queue = {}
    /\ InFlight(task) = {}
    /\ Return("ok")
    /\ UNCHANGED <<monitors, indexer, last_checks, transactions, security_analyses,
                   notification_status, concurrency, tickAvail, cycle, queue, task,
                   dispatchLog, call, ret>>


\* ------------------------------------------------------------ process_safe
\* process_safe works on the rows of its own (safe_address, network) only, so
\* its awaits are modelled as steps of a local run and the run as one action.
\* A world is what a run reads and writes: the tables, the dispatch history
\* and the position l of the future.

World(g) ==
    [last_checks |-> last_checks, transactions |-> transactions,
     security_analyses |-> security_analyses, notification_status |-> notification_status,
     dispatchLog |-> dispatchLog, l |-> task[g]]

\* an Err leaves process_safe through `?` or `return Err(e)`
Fail(w) == [w EXCEPT !.l.pc = "err", !.l.i = 0, !.l.j = 0]

\* the loop over pending_transactions at position i, or the final Ok(())
NextPending(l, i) ==
    IF i > Len(pending_transactions(l.txs))
    THEN [l EXCEPT !.pc = "ok", !.i = 0, !.j = 0]
    ELSE [l EXCEPT !.pc = "was_notified", !.i = i, !.j = 0]

\* the end of the transaction loop: "Completed transaction loop"
AfterStore(l) == NextPending([l EXCEPT !.stored = TRUE], 1)

\* the loop over monitors at position j for pending transaction i
NextMonitor(l, i, j) ==
    LET tx == pending_transactions(l.txs)[i]
        k == next_opted(l.mons, alert_of(tx), j)
    IN IF k = 0 THEN NextPending(l, i + 1)
       ELSE [l EXCEPT !.pc = "send", !.j = k]

\* self.update_last_check(&monitor.id, ..).await?
UpdateLastCheck(w) ==
    LET l == w.l
        m == l.mons[l.j]
    IN { [w EXCEPT !.last_checks = update_last_check(w.last_checks, m),
                   !.l = IF l.j < Len(l.mons) THEN [l EXCEPT !.j = l.j + 1]
                         ELSE [l EXCEPT !.pc = "fetch", !.j = 0]],
         Fail(w) }

\* variant: the notifications sent before the transactions are stored
Fetch_then_notify(g, w) ==
    LET l == [w.l EXCEPT !.txs = fetch_all_transactions(g), !.fetched = TRUE]
    IN { [w EXCEPT !.l = AfterStore(l)], Fail(w) }

\* self.safe_api.fetch_all_transactions(safe_address, network, 50).await?
Fetch(g, w) ==
    LET l == [w.l EXCEPT !.txs = fetch_all_transactions(g), !.fetched = TRUE]
    IN { [w EXCEPT !.l = IF l.txs = <<>> THEN AfterStore(l)
                         ELSE [l EXCEPT !.pc = "store_tx", !.i = 1, !.j = 1]],
         Fail(w) }

\* self.store_transaction(transaction, &monitor.id, ..) for transaction i, monitor j
StoreTransaction(w) ==
    LET l == w.l
    IN { [w EXCEPT !.transactions = store_transaction(w.transactions, l.txs[l.i], l.mons[l.j], cycle),
                   !.l = IF l.j < Len(l.mons) THEN [l EXCEPT !.j = l.j + 1]
                         ELSE [l EXCEPT !.pc = "store_analysis", !.j = 0]],
         Fail(w) }

\* analyze_transaction, then self.store_security_analysis(.., &monitors[0].user_id)
StoreAnalysis(g, w) ==
    LET l == w.l
        tx == l.txs[l.i]
    IN { [w EXCEPT !.security_analyses =
                       store_security_analysis(w.security_analyses, tx.safe_tx_hash, g,
                                               risk_of(tx), monitors[l.mons[1]].user_id),
                   !.l = IF l.i < Len(l.txs)
                         THEN [l EXCEPT !.pc = "store_tx", !.i = l.i + 1, !.j = 1]
                         ELSE AfterStore(l)],
         Fail(w) }

\* if self.was_notified(..).await? { continue }, then the classification and
\* the monitors up to the first one that should be notified
WasNotified(g, w) ==
    LET l == w.l
        tx == pending_transactions(l.txs)[l.i]
    IN { [w EXCEPT !.l = IF was_notified(w.notification_status, tx.safe_tx_hash, g)
                         THEN NextPending(l, l.i + 1)
                         ELSE NextMonitor(l, l.i, 1)],
         Fail(w) }

\* self.send_notifications(&alert, &monitor).await?: the channels are parsed,
\* every channel is tried (join_all), failures are logged, Ok(()) is returned
SendNotifications(g, w) ==
    LET l == w.l
        tx == pending_transactions(l.txs)[l.i]
        m == l.mons[l.j]
        parsed == parse_notification_channels(monitors[m].settings)
    IN IF ~parsed.ok
       THEN { Fail(w) }
       ELSE { [w EXCEPT !.dispatchLog = @ \cup
                          { [transaction_hash |-> tx.safe_tx_hash, monitor_id |-> m, cycle |-> cycle,
                             channels |-> parsed.channels, delivered |-> (sent # {}),
                             after_row |-> key_exists(w.notification_status, tx.safe_tx_hash, g, m)] },
                        !.l.pc = "record"] : sent \in SUBSET (1..parsed.channels) }

\* self.record_notification(.., &monitor.id, &alert_type).await?
RecordNotification(g, w) ==
    LET l == w.l
        tx == pending_transactions(l.txs)[l.i]
        m == l.mons[l.j]
        inserted(unique) ==
            LET res == record_notification(w.notification_status, tx.safe_tx_hash, g, m,
                                           alert_of(tx), unique)
            IN IF res.ok
               THEN [w EXCEPT !.notification_status = res.rows,
                              !.l = NextMonitor(l, l.i, l.j + 1)]
               ELSE Fail(w)
    IN { inserted(unique) : unique \in notification_status_unique } \cup { Fail(w) }

\* one await of process_safe
Step(g, w) ==
    CASE w.l.pc = "last_check" -> UpdateLastCheck(w)
      [] w.l.pc = "fetch" -> Fetch(g, w)
      [] w.l.pc = "store_tx" -> StoreTransaction(w)
      [] w.l.pc = "store_analysis" -> StoreAnalysis(g, w)
      [] w.l.pc = "was_notified" -> WasNotified(g, w)
      [] w.l.pc = "send" -> SendNotifications(g, w)
      [] w.l.pc = "record" -> RecordNotification(g, w)
      [] OTHER -> {w}

\* the worlds in which a run of process_safe can end
RECURSIVE Runs(_, _)
Runs(g, w) ==
    IF w.l.pc \in {"ok", "err"} THEN {w}
    ELSE UNION { Runs(g, v) : v \in Step(g, w) }

\* the future of group g runs to its end; run_check logs an Err
process_safe(g) ==
    /\ InCheck
    /\ task[g].pc = "last_check"
    /\ \E w \in Runs(g, World(g)) :
        /\ last_checks' = w.last_checks
        /\ transactions' = w.transactions
        /\ security_analyses' = w.security_analyses
        /\ notification_status' = w.notification_status
        /\ dispatchLog' = w.dispatchLog
        /\ task' = [task EXCEPT ![g] = w.l]
        /\ queue' = IF w.l.pc = "err" THEN after_error(queue) ELSE queue
    /\ UNCHANGED <<monitors, indexer, concurrency, mainPc, tickAvail, cycle, runResult,
                   call, ret>>

\* ------------------------------------------------------------ specification

Next ==
    \/ \E g \in Groups, s \in SettingsChoices : create_monitor(g, s)
    \/ \E g \in Groups, k \in TxKinds : SubmitTx(g, k)
    \/ \E g \in Groups, t \in TxIds : ExecuteTx(g, t)
    \/ InitialCheck
    \/ ScheduledCheck
    \/ TimerFire
    \/ \E g \in Groups : StartGroup(g)
    \/ \E g \in Groups : process_safe(g)
    \/ ReturnCheck

Spec == Init /\ [][Next]_vars


\* ----------------------------------------- process_safe, await by await
\* One run of process_safe for the Safe of group 1 in the first cycle,
\* followed one await at a time.  call is the history of the awaits made:
\* the operation, the transaction and the monitor it is for, and whether it
\* returned Ok.  ret is the Result of the run once it has ended.

StepGroup == 1

\* the settings of SettingsChoices that get_active_monitors selects
ActiveSettings == { s \in SettingsChoices : s.active }

\* what the indexer holds for the Safe: absent, pending or executed
\* transactions of the kinds of TxKinds
IndexedTxs ==
    {AbsentTx} \cup
    { [status |-> st, findings |-> k.findings, method |-> k.method] :
        st \in {"pending", "executed"}, k \in TxKinds }

NoHash == <<0, 0>>

\* the transaction an await at position l is for
HashAt(l) ==
    IF l.pc \in {"store_tx", "store_analysis"} THEN l.txs[l.i].safe_tx_hash
    ELSE IF l.pc \in {"was_notified", "send", "record"}
    THEN pending_transactions(l.txs)[l.i].safe_tx_hash
    ELSE NoHash

\* the monitor an await at position l is for
MonitorAt(l) ==
    IF l.pc \in {"last_check", "store_tx", "send", "record"} THEN l.mons[l.j] ELSE 0

InitSteps ==
    /\ monitors \in { [m \in MonitorIds |->
                          [group |-> StepGroup, user_id |-> m, settings |-> s[m]]] :
                       s \in [MonitorIds -> ActiveSettings] }
    /\ indexer \in { [g \in Groups |-> IF g = StepGroup THEN ix
                                       ELSE [t \in 1..MaxStepTxs |-> AbsentTx]] :
                      ix \in [1..MaxStepTxs -> IndexedTxs] }
    /\ last_checks = MonitorIds
    /\ transactions = EmptyBag
    /\ security_analyses = {}
    /\ notification_status = EmptyBag
    /\ concurrency = 1
    /\ mainPc = "initial_check"
    /\ tickAvail = 0
    /\ cycle = 1
    /\ runResult = "none"
    /\ queue = {}
    /\ task = [g \in Groups |->
                  IF g = StepGroup
                  THEN [IdleTask EXCEPT !.pc = "last_check", !.j = 1,
                            !.mons = group_monitors_by_address_network(
                                        monitors, get_active_monitors(monitors))[g]]
                  ELSE IdleTask]
    /\ dispatchLog = {}
    /\ call = <<>>
    /\ ret = "none"

\* the future of group g is polled to its next await
Await(g) ==
    /\ task[g].pc \in Running
    /\ \E v \in Step(g, World(g)) :
        /\ last_checks' = v.last_checks
        /\ transactions' = v.transactions
        /\ security_analyses' = v.security_analyses
        /\ notification_status' = v.notification_status
        /\ dispatchLog' = v.dispatchLog
        /\ task' = [task EXCEPT ![g] = v.l]
        /\ call' = Append(call, [op |-> task[g].pc, hash |-> HashAt(task[g]),
                                 monitor |-> MonitorAt(task[g]),
                                 ok |-> v.l.pc # "err"])
        /\ ret' = IF v.l.pc \in Finished THEN v.l.pc ELSE ret
    /\ UNCHANGED <<monitors, indexer, concurrency, mainPc, tickAvail, cycle, runResult,
                   queue>>

NextSteps == \E g \in Groups : Await(g)

SpecSteps == InitSteps /\ [][NextSteps]_vars


\* ----------------------------------- the pure functions, called on their own

JsonFlags == {Absent, Null, JTrue, JFalse}
AlertTypes == {"suspicious", "management", "normal"}
Methods == management_methods \cup {NoMethod, "addOwner", "transfer", "execTransaction", "multiSend"}

\* should_notify(&alert_type, &settings) on settings with the two flags
CallShouldNotify(alert_type, notifyAll, notifyManagement) ==
    /\ call' = [fn |-> "should_notify", a |-> alert_type, b |-> notifyAll, c |-> notifyManagement]
    /\ ret' = [NoRet EXCEPT !.flag = should_notify(alert_type, [notifyAll |-> notifyAll,
                                                             notifyManagement |-> notifyManagement])]
    /\ UNCHANGED workerVars

\* determine_alert_type(&risk_level, &tx) on a transaction with the decoded method
CallDetermineAlertType(risk_level, method) ==
    /\ call' = [fn |-> "determine_alert_type", a |-> risk_level, b |-> method, c |-> "none"]
    /\ ret' = [NoRet EXCEPT !.name = determine_alert_type(risk_level, method)]
    /\ UNCHANGED workerVars

NextPure ==
    \/ \E t \in AlertTypes, na \in JsonFlags, nm \in JsonFlags : CallShouldNotify(t, na, nm)
    \/ \E r \in RiskLevels, m \in Methods : CallDetermineAlertType(r, m)

SpecPure == Init /\ [][NextPure]_vars


\* ------------------------------ the table operations, called on their own

\* record_notification(&hash, safe_address, network, &monitor.id, &alert_type)
\* on the table as earlier calls left it.  A second insert of a key is a
\* conflict only under the table's unique key, so the constrained table is
\* the one exercised.
CallRecordNotification(g, t, m, alert_type) ==
    \E unique \in notification_status_unique :
       LET existed == key_exists(notification_status, <<g, t>>, g, m)
           res == record_notification(notification_status, <<g, t>>, g, m, alert_type, unique)
       IN /\ unique
          /\ call' = [fn |-> "record_notification",
                      a |-> IF existed THEN "conflict" ELSE "fresh",
                      b |-> alert_type, c |-> "none"]
          /\ ret' = [NoRet EXCEPT !.flag = res.ok]
          /\ notification_status' = res.rows
          /\ UNCHANGED <<monitors, indexer, last_checks, transactions, security_analyses,
                         concurrency, mainPc, tickAvail, cycle, runResult, queue, task,
                         dispatchLog>>

NextDb ==
    \E g \in Groups, t \in TxIds, m \in MonitorIds, a \in AlertTypes :
       CallRecordNotification(g, t, m, a)

SpecDb == Init /\ [][NextDb]_vars


\* ------------------------------------------------------- risk aggregation

\* AnalysisDetail / AnalysisDetailInput: a severity and an optional priority
Severities == {"info", "low", "medium", "high", "critical"}
Priorities == {"none", "P0", "P1"}
Findings == [severity : Severities, priority : Priorities]

\* severity_counts.get(sev).unwrap_or(&0)
RECURSIVE severity_count(_, _)
severity_count(details, sev) ==
    IF details = <<>> THEN 0
    ELSE (IF Head(details).severity = sev THEN 1 ELSE 0) + severity_count(Tail(details), sev)

\* has_p0_priority after the loop over the details
RECURSIVE has_p0_priority(_)
has_p0_priority(details) ==
    details # <<>> /\ (Head(details).priority = "P0" \/ has_p0_priority(Tail(details)))

\* variant: a single medium finding already counted as suspicious
calculate_risk_level_one_medium(details) ==
    LET critical == severity_count(details, "critical")
        high == severity_count(details, "high")
        medium == severity_count(details, "medium")
    IN IF critical > 0 \/ has_p0_priority(details)
       THEN [risk_level |-> "critical", is_suspicious |-> TRUE, priority |-> "P0"]
       ELSE IF high > 0
       THEN [risk_level |-> "high", is_suspicious |-> TRUE, priority |-> "none"]
       ELSE IF medium > 0
       THEN [risk_level |-> "medium", is_suspicious |-> TRUE, priority |-> "none"]
       ELSE [risk_level |-> "low", is_suspicious |-> FALSE, priority |-> "none"]

\* SecurityAnalysisService::calculate_risk_level on an analysis that
\* analyze_transaction created (is_suspicious false, priority None)
calculate_risk_level(details) ==
    LET critical == severity_count(details, "critical")
        high == severity_count(details, "high")
        medium == severity_count(details, "medium")
    IN IF critical > 0 \/ has_p0_priority(details)
       THEN [risk_level |-> "critical", is_suspicious |-> TRUE, priority |-> "P0"]
       ELSE IF high > 0
       THEN [risk_level |-> "high", is_suspicious |-> TRUE, priority |-> "none"]
       ELSE IF medium > 1
       THEN [risk_level |-> "medium", is_suspicious |-> TRUE, priority |-> "none"]
       ELSE IF medium > 0
       THEN [risk_level |-> "medium", is_suspicious |-> FALSE, priority |-> "none"]
       ELSE [risk_level |-> "low", is_suspicious |-> FALSE, priority |-> "none"]

\* SecurityScoreBuiltin::execute: the (risk_level, is_suspicious, priority)
\* put into the output's severity, extra and priority
calculate_security_score(details) ==
    LET critical == severity_count(details, "critical")
        high == severity_count(details, "high")
        medium == severity_count(details, "medium")
    IN IF critical > 0 \/ has_p0_priority(details)
       THEN [risk_level |-> "critical", is_suspicious |-> TRUE, priority |-> "P0"]
       ELSE IF high > 0
       THEN [risk_level |-> "high", is_suspicious |-> TRUE, priority |-> "none"]
       ELSE IF medium > 1
       THEN [risk_level |-> "medium", is_suspicious |-> TRUE, priority |-> "none"]
       ELSE IF medium > 0
       THEN [risk_level |-> "medium", is_suspicious |-> FALSE, priority |-> "none"]
       ELSE [risk_level |-> "low", is_suspicious |-> FALSE, priority |-> "none"]

\* variant: the high branch lost
calculate_risk_no_high(details) ==
    LET critical == severity_count(details, "critical")
        medium == severity_count(details, "medium")
    IN IF critical > 0 \/ has_p0_priority(details)
       THEN [risk_level |-> "critical", is_suspicious |-> TRUE, priority |-> "P0"]
       ELSE IF medium > 1
       THEN [risk_level |-> "medium", is_suspicious |-> TRUE, priority |-> "none"]
       ELSE IF medium > 0
       THEN [risk_level |-> "medium", is_suspicious |-> FALSE, priority |-> "none"]
       ELSE [risk_level |-> "low", is_suspicious |-> FALSE, priority |-> "none"]

\* SecurityScoreBuiltin::calculate_risk
calculate_risk(details) ==
    LET critical == severity_count(details, "critical")
        high == severity_count(details, "high")
        medium == severity_count(details, "medium")
    IN IF critical > 0 \/ has_p0_priority(details)
       THEN [risk_level |-> "critical", is_suspicious |-> TRUE, priority |-> "P0"]
       ELSE IF high > 0
       THEN [risk_level |-> "high", is_suspicious |-> TRUE, priority |-> "none"]
       ELSE IF medium > 1
       THEN [risk_level |-> "medium", is_suspicious |-> TRUE, priority |-> "none"]
       ELSE IF medium > 0
       THEN [risk_level |-> "medium", is_suspicious |-> FALSE, priority |-> "none"]
       ELSE [risk_level |-> "low", is_suspicious |-> FALSE, priority |-> "none"]

\* the three aggregations of one list of findings
Aggregate(details) ==
    [service |-> calculate_risk_level(details),
     builtin |-> calculate_security_score(details),
     calc |-> calculate_risk(details)]

InitRisk ==
    /\ WorkerInit
    /\ call = [fn |-> "none", details |-> <<>>]
    /\ ret = Aggregate(<<>>)

\* one more finding is pushed to the details and the risk is aggregated anew
AddFinding(f) ==
    /\ Len(call.details) < MaxFindings
    /\ call' = [fn |-> "calculate_risk_level", details |-> Append(call.details, f)]
    /\ ret' = Aggregate(call'.details)
    /\ UNCHANGED workerVars

NextRisk == \E f \in Findings : AddFinding(f)

SpecRisk == InitRisk /\ [][NextRisk]_vars


\* ------------------------------------------------------ the template engine

\* one entry of a template directory: whether read_dir yields it, whether
\* its YAML parses, and the fields of the Template it holds
TemplateFile(id, builtin, conditions, condition_groups) ==
    [entry_ok |-> id # "lost", parses |-> id # "broken", id |-> id,
     template_type |-> "transaction-analysis", conditions |-> conditions,
     condition_groups |-> condition_groups,
     builtin |-> builtin, severity |-> "medium", priority |-> "none"]

\* Condition::FieldEquals { field: "operation", value: 1 }
OperationIsDelegateCall == <<"operation">>

\* a ConditionGroup: the output_type of its output, its operator, its
\* conditions (FieldEquals operation 1, FieldExists nonce), and the severity
\* and priority it sets ("none" for None)
ConditionGroup(output_type, operator, severity) ==
    [output_type |-> output_type, operator |-> operator,
     conditions |-> <<"operation", "nonce">>,
     severity |-> severity, priority |-> "none"]

DelegateCallGroups ==
    <<ConditionGroup("delegate-call-or-nonce", "or", "high"),
      ConditionGroup("delegate-call-and-nonce", "and", "none")>>

TemplateFiles ==
    {TemplateFile("delegate-call", "none", OperationIsDelegateCall, <<>>),
     TemplateFile("delegate-call-groups", "none", OperationIsDelegateCall,
                  DelegateCallGroups),
     TemplateFile("hash-verification", "verify-transaction-hash", <<>>, <<>>),
     TemplateFile("security-score", "calculate-security-score", <<>>, <<>>),
     TemplateFile("signature-check", "verify-signatures", <<>>, <<>>),
     TemplateFile("no-conditions", "none", <<>>, <<>>),
     TemplateFile("broken", "none", OperationIsDelegateCall, <<>>),
     TemplateFile("lost", "none", OperationIsDelegateCall, <<>>)}

\* an entry of the safe-assessment directory
AssessmentFile(id, rules) ==
    [entry_ok |-> TRUE, parses |-> TRUE, id |-> id,
     template_type |-> "safe-assessment", rules |-> rules]

AssessmentFiles ==
    {AssessmentFile("ownership", <<"threshold">>), AssessmentFile("no-rules", <<>>)}

SeqsUpTo(S, n) == UNION {[1..k -> S] : k \in 0..n}

\* the "templates" directory of the working directory, if there is one
NoDirectory ==
    [exists |-> FALSE, tx_exists |-> FALSE, tx_files |-> <<>>,
     assessment_exists |-> FALSE, assessment_files |-> <<>>]

Directories ==
    {NoDirectory} \cup
    UNION {{[exists |-> TRUE, tx_exists |-> te, tx_files |-> tf,
             assessment_exists |-> ae, assessment_files |-> af] :
                tf \in SeqsUpTo(TemplateFiles, IF te THEN MaxTemplateFiles ELSE 0),
                af \in SeqsUpTo(AssessmentFiles,
                                IF ae THEN MaxAssessmentFiles ELSE 0)} :
           te \in BOOLEAN, ae \in BOOLEAN}

validate_transaction_template(template) ==
    /\ template.id # ""
    /\ template.template_type = "transaction-analysis"
    /\ ~(template.conditions = <<>> /\ template.condition_groups = <<>>
            /\ template.builtin = "none")

validate_assessment_template(template) ==
    /\ template.id # ""
    /\ template.template_type = "safe-assessment"
    /\ template.rules # <<>>

\* Ok(template) or Err of load_transaction_template
load_transaction_template(file) ==
    file.parses /\ validate_transaction_template(file)

load_assessment_template(file) ==
    file.parses /\ validate_assessment_template(file)

\* sort_by_key(|t| t.builtin.is_some()): stable, the templates without a
\* built-in first
sort_by_builtin(templates) ==
    SelectSeq(templates, LAMBDA t : t.builtin = "none") \o
    SelectSeq(templates, LAMBDA t : t.builtin # "none")

\* the loop over read_dir of load_transaction_templates: [ok, templates, errors]
RECURSIVE read_transaction_entries(_, _, _)
read_transaction_entries(files, templates, errors) ==
    IF files = <<>>
    THEN [ok |-> TRUE, templates |-> sort_by_builtin(templates), errors |-> errors]
    ELSE IF ~Head(files).entry_ok
    THEN [ok |-> FALSE, templates |-> templates, errors |-> errors]
    ELSE IF load_transaction_template(Head(files))
    THEN read_transaction_entries(Tail(files), Append(templates, Head(files)), errors)
    ELSE read_transaction_entries(Tail(files), templates, errors + 1)

load_transaction_templates(files) == read_transaction_entries(files, <<>>, 0)

RECURSIVE read_assessment_entries(_, _, _)
read_assessment_entries(files, templates, errors) ==
    IF files = <<>>
    THEN [ok |-> TRUE, templates |-> templates, errors |-> errors]
    ELSE IF ~Head(files).entry_ok
    THEN [ok |-> FALSE, templates |-> templates, errors |-> errors]
    ELSE IF load_assessment_template(Head(files))
    THEN read_assessment_entries(Tail(files), Append(templates, Head(files)), errors)
    ELSE read_assessment_entries(Tail(files), templates, errors + 1)

load_assessment_templates(files) == read_assessment_entries(files, <<>>, 0)

\* the loader after load_from_directory, Ok or Err
load_from_directory(dir) ==
    LET tx == IF dir.tx_exists THEN load_transaction_templates(dir.tx_files)
              ELSE [ok |-> TRUE, templates |-> <<>>, errors |-> 0]
        as == IF tx.ok /\ dir.assessment_exists
              THEN load_assessment_templates(dir.assessment_files)
              ELSE [ok |-> TRUE, templates |-> <<>>, errors |-> 0]
    IN [ok |-> tx.ok /\ as.ok,
        transaction_templates |-> tx.templates,
        assessment_templates |-> as.templates,
        errors |-> tx.errors + as.errors]

embedded_transaction_templates == <<>>

embedded_assessment_templates == <<>>

\* if loader.x_templates.is_empty() { loader.x_templates = embedded_x_templates() }
with_fallback(templates, embedded) ==
    IF templates = <<>> THEN embedded ELSE templates

\* TemplateLoader::new
TemplateLoader_new ==
    [ok |-> TRUE, transaction_templates |-> <<>>, assessment_templates |-> <<>>,
     errors |-> 0]

\* impl Default for TemplateLoader: the loader, or the panic
TemplateLoader_default(dir) ==
    LET loaded == IF dir.exists THEN load_from_directory(dir) ELSE TemplateLoader_new
        tx == with_fallback(loaded.transaction_templates, embedded_transaction_templates)
        as == with_fallback(loaded.assessment_templates, embedded_assessment_templates)
    IN [panic |-> as = <<>> \/ tx = <<>>,
        transaction_templates |-> tx,
        assessment_templates |-> as,
        errors |-> loaded.errors]

\* a transaction context: chain_id and safe_version of the request, and the
\* nonce, safeTxHash, to and operation of the transaction
Contexts ==
    [chain_id : {"none", "1"}, safe_version : {"none", "1.3.0"},
     nonce : {"none", "7"}, safeTxHash : {"none", "0xab", "0xAB", "0xcd"},
     to : {"0x40a2", "not-an-address"}, operation : {0, 1}]

\* the ASCII lower-casing of the hashes of Contexts
ascii_lowercase(h) == IF h = "0xAB" THEN "0xab" ELSE h

\* calculate_all_hashes: the hex of the safeTxHash, or "" for Err (to does
\* not parse as an address)
calculate_all_hashes(ctx) == IF ctx.to = "0x40a2" THEN "0xab" ELSE ""

\* verify_transaction_hashes
verify_transaction_hashes(ctx) ==
    LET calculated == calculate_all_hashes(ctx)
    IN IF calculated # ""
       THEN [verified |-> ascii_lowercase(calculated) = ascii_lowercase(ctx.safeTxHash),
             calculated |-> calculated, api |-> ctx.safeTxHash]
       ELSE [verified |-> FALSE, calculated |-> "", api |-> ctx.safeTxHash]

\* BuiltinResult.output = None
NoOutput ==
    [present |-> FALSE, output_type |-> "none", severity |-> "none",
     priority |-> "none", is_suspicious |-> FALSE, calculated |-> "", api |-> ""]

\* variant: a missing chain_id or safe_version is reported as a mismatch
HashVerificationBuiltin_execute_strict(ctx) ==
    IF ctx.nonce = "none" \/ ctx.safeTxHash = "none" THEN NoOutput
    ELSE IF ctx.chain_id = "none" \/ ctx.safe_version = "none"
    THEN [present |-> TRUE, output_type |-> "hash_mismatch", severity |-> "critical",
          priority |-> "P0", is_suspicious |-> FALSE,
          calculated |-> "", api |-> ctx.safeTxHash]
    ELSE LET result == verify_transaction_hashes(ctx)
         IN IF ~result.verified
            THEN [present |-> TRUE, output_type |-> "hash_mismatch",
                  severity |-> "critical", priority |-> "P0", is_suspicious |-> FALSE,
                  calculated |-> result.calculated, api |-> result.api]
            ELSE [present |-> TRUE, output_type |-> "hash_verified",
                  severity |-> "low", priority |-> "none", is_suspicious |-> FALSE,
                  calculated |-> result.calculated, api |-> result.api]

\* HashVerificationBuiltin::execute: the output of the BuiltinResult
HashVerificationBuiltin_execute(ctx) ==
    IF ctx.chain_id = "none" THEN NoOutput
    ELSE IF ctx.safe_version = "none" THEN NoOutput
    ELSE IF ctx.nonce = "none" THEN NoOutput
    ELSE IF ctx.safeTxHash = "none" THEN NoOutput
    ELSE LET result == verify_transaction_hashes(ctx)
         IN IF ~result.verified
            THEN [present |-> TRUE, output_type |-> "hash_mismatch",
                  severity |-> "critical", priority |-> "P0", is_suspicious |-> FALSE,
                  calculated |-> result.calculated, api |-> result.api]
            ELSE [present |-> TRUE, output_type |-> "hash_verified",
                  severity |-> "low", priority |-> "none", is_suspicious |-> FALSE,
                  calculated |-> result.calculated, api |-> result.api]

\* SecurityScoreBuiltin::execute: the output of the BuiltinResult
SecurityScoreBuiltin_execute(analysis_details) ==
    LET score == calculate_security_score(analysis_details)
    IN [present |-> TRUE, output_type |-> "security_score",
        severity |-> score.risk_level, priority |-> score.priority,
        is_suspicious |-> score.is_suspicious, calculated |-> "", api |-> ""]

\* BuiltinRegistry::new: the names registered
BuiltinRegistry == {"verify-transaction-hash", "calculate-security-score"}

\* BuiltinRegistry::execute; None (no such built-in) is NoOutput as well
BuiltinRegistry_execute(name, ctx, analysis_details) ==
    IF name \notin BuiltinRegistry THEN NoOutput
    ELSE IF name = "verify-transaction-hash" THEN HashVerificationBuiltin_execute(ctx)
    ELSE SecurityScoreBuiltin_execute(analysis_details)

\* the Severity a built-in's severity string becomes in the TemplateMatch
output_severity(severity) ==
    IF severity \in {"critical", "high", "medium"} THEN severity ELSE "low"

\* the TemplateMatch pushed for the output of a built-in
builtin_match(template, output) ==
    [template_id |-> template.id, output_type |-> output.output_type,
     severity |-> output_severity(output.severity), priority |-> output.priority,
     is_suspicious |-> output.is_suspicious,
     calculated |-> output.calculated, api |-> output.api]

\* the TemplateMatch pushed for a template all of whose conditions match
template_match(template) ==
    [template_id |-> template.id, output_type |-> template.id,
     severity |-> template.severity, priority |-> template.priority,
     is_suspicious |-> FALSE, calculated |-> "", api |-> ""]

\* the TemplateMatch pushed for a matching group of a template
group_match(template, group) ==
    [template_id |-> template.id, output_type |-> group.output_type,
     severity |-> IF group.severity # "none" THEN group.severity
                  ELSE template.severity,
     priority |-> IF group.priority # "none" THEN group.priority
                  ELSE template.priority,
     is_suspicious |-> FALSE, calculated |-> "", api |-> ""]

\* evaluate_condition on the conditions of TemplateFiles
evaluate_condition(condition, ctx) ==
    IF condition = "operation" THEN ctx.operation = 1
    ELSE condition = "nonce" /\ ctx.nonce # "none"

evaluate_condition_group(group, ctx) ==
    IF group.operator = "and"
    THEN \A k \in 1..Len(group.conditions) : evaluate_condition(group.conditions[k], ctx)
    ELSE \E k \in 1..Len(group.conditions) : evaluate_condition(group.conditions[k], ctx)

\* the loop over template.condition_groups of evaluate_transaction
RECURSIVE evaluate_groups(_, _, _, _)
evaluate_groups(template, groups, ctx, matches) ==
    IF groups = <<>> THEN matches
    ELSE evaluate_groups(template, Tail(groups), ctx,
            IF evaluate_condition_group(Head(groups), ctx)
            THEN Append(matches, group_match(template, Head(groups)))
            ELSE matches)

\* matches.iter().map(|m| AnalysisDetailInput { severity, priority })
analysis_details_of(matches) ==
    [k \in 1..Len(matches) |->
        [severity |-> matches[k].severity, priority |-> matches[k].priority]]

\* the loop of evaluate_transaction over the templates of the loader
RECURSIVE evaluate_templates(_, _, _)
evaluate_templates(templates, ctx, matches) ==
    IF templates = <<>> THEN matches
    ELSE LET template == Head(templates)
             output == BuiltinRegistry_execute(template.builtin, ctx,
                                               analysis_details_of(matches))
             all_match == \A k \in 1..Len(template.conditions) :
                             evaluate_condition(template.conditions[k], ctx)
         IN IF template.builtin # "none"
            THEN evaluate_templates(Tail(templates), ctx,
                    IF output.present THEN Append(matches, builtin_match(template, output))
                    ELSE matches)
            ELSE LET grouped == evaluate_groups(template, template.condition_groups,
                                                ctx, matches)
                 IN evaluate_templates(Tail(templates), ctx,
                        IF template.conditions # <<>> /\ all_match
                        THEN Append(grouped, template_match(template))
                        ELSE grouped)

evaluate_transaction(templates, ctx) == evaluate_templates(templates, ctx, <<>>)

\* a TemplateEngine not yet constructed
NoEngine ==
    [started |-> FALSE, supplied |-> FALSE, panic |-> FALSE,
     transaction_templates |-> <<>>, assessment_templates |-> <<>>,
     errors |-> 0, matches |-> <<>>]

InitEngine ==
    /\ WorkerInit
    /\ call = [fn |-> "none", dir |-> NoDirectory, ctx |-> CHOOSE c \in Contexts : TRUE]
    /\ ret = NoEngine

\* TemplateEngine::new in a working directory whose "templates" is dir
TemplateEngine_new(dir) ==
    /\ ~ret.started
    /\ call' = [call EXCEPT !.fn = "new", !.dir = dir]
    /\ ret' = [NoEngine EXCEPT !.started = TRUE,
                   !.panic = TemplateLoader_default(dir).panic,
                   !.transaction_templates = TemplateLoader_default(dir).transaction_templates,
                   !.assessment_templates = TemplateLoader_default(dir).assessment_templates,
                   !.errors = TemplateLoader_default(dir).errors]
    /\ UNCHANGED workerVars

\* TemplateEngine::with_loader of a TemplateLoader::new on which
\* load_from_directory(dir) was called, whatever it returned
TemplateEngine_with_loader(dir) ==
    /\ ~ret.started
    /\ call' = [call EXCEPT !.fn = "with_loader", !.dir = dir]
    /\ ret' = [NoEngine EXCEPT !.started = TRUE,
                   !.supplied = TRUE,
                   !.transaction_templates = load_from_directory(dir).transaction_templates,
                   !.assessment_templates = load_from_directory(dir).assessment_templates,
                   !.errors = load_from_directory(dir).errors]
    /\ UNCHANGED workerVars

\* evaluate_transaction of the engine constructed; it takes &self, so one
\* evaluation per behaviour shows them all
EvaluateTransaction(ctx) ==
    /\ call.fn \in {"new", "with_loader"}
    /\ ~ret.panic
    /\ call' = [call EXCEPT !.fn = "evaluate_transaction", !.ctx = ctx]
    /\ ret' = [ret EXCEPT !.matches = evaluate_transaction(ret.transaction_templates, ctx)]
    /\ UNCHANGED workerVars

NextEngine ==
    \/ /\ ~ret.started
       /\ \E dir \in Directories : TemplateEngine_new(dir)
    \/ /\ ~ret.started
       /\ \E dir \in Directories : TemplateEngine_with_loader(dir)
    \/ /\ ret.started
       /\ \E ctx \in Contexts : EvaluateTransaction(ctx)

SpecEngine == InitEngine /\ [][NextEngine]_vars


\* ------------------------------------------------------- trusted addresses

\* an address is a string of AddrLen characters, one digit and one letter
\* in its two cases
AddrChars == {"4", "a", "A"}
Addresses == [1..AddrLen -> AddrChars]

\* str::to_lowercase
to_lowercase(address) ==
    [k \in 1..Len(address) |-> IF address[k] = "A" THEN "a" ELSE address[k]]

\* the key of MultiSendCallOnly in TRUSTED_DELEGATE_CALL_ADDRESSES, written
\* with its checksum's capitals ("0x40A2aCCb...")
ChecksumKey == [k \in 1..AddrLen |-> IF k = 1 THEN "4" ELSE "A"]

TRUSTED_DELEGATE_CALL_ADDRESSES == {ChecksumKey}

\* the keys of trusted_delegates in get_call_type_info ("0x40a2accb...")
trusted_delegates == {to_lowercase(ChecksumKey)}

\* the whitelist of a WhitelistLookup condition, as its template writes it
Whitelists == {{}, {ChecksumKey}, {to_lowercase(ChecksumKey)}}

\* SecurityAnalysisService::check_delegate_call: the detail pushed and the
\* call_type's is_trusted_delegate
check_delegate_call(to, operation) ==
    [finding |-> IF operation # 1 THEN "none"
                 ELSE IF to \in TRUSTED_DELEGATE_CALL_ADDRESSES
                 THEN "trusted_delegate_call"
                 ELSE "untrusted_delegate_call",
     is_trusted_delegate |-> operation = 1 /\ to \in TRUSTED_DELEGATE_CALL_ADDRESSES]

\* TemplateEngine::get_call_type_info: is_trusted_delegate
get_call_type_info(to, operation) ==
    [finding |-> "none",
     is_trusted_delegate |-> operation = 1 /\ to_lowercase(to) \in trusted_delegates]

\* evaluate_condition on Condition::WhitelistLookup, the field a string
WhitelistLookup(address, whitelist, expect) ==
    LET found == to_lowercase(address) \in whitelist
    IN IF expect = "present" THEN found ELSE ~found

InitAddr ==
    /\ WorkerInit
    /\ call = [fn |-> "none", to |-> ChecksumKey, operation |-> 0,
               whitelist |-> {}, expect |-> "present"]
    /\ ret = [finding |-> "none", is_trusted_delegate |-> FALSE, holds |-> FALSE]

CallCheckDelegateCall(to, operation) ==
    /\ call' = [fn |-> "check_delegate_call", to |-> to, operation |-> operation,
                whitelist |-> {}, expect |-> "present"]
    /\ ret' = [finding |-> check_delegate_call(to, operation).finding,
               is_trusted_delegate |-> check_delegate_call(to, operation).is_trusted_delegate,
               holds |-> FALSE]
    /\ UNCHANGED workerVars

CallGetCallTypeInfo(to, operation) ==
    /\ call' = [fn |-> "get_call_type_info", to |-> to, operation |-> operation,
                whitelist |-> {}, expect |-> "present"]
    /\ ret' = [finding |-> get_call_type_info(to, operation).finding,
               is_trusted_delegate |-> get_call_type_info(to, operation).is_trusted_delegate,
               holds |-> FALSE]
    /\ UNCHANGED workerVars

CallWhitelistLookup(address, whitelist, expect) ==
    /\ call' = [fn |-> "WhitelistLookup", to |-> address, operation |-> 0,
                whitelist |-> whitelist, expect |-> expect]
    /\ ret' = [finding |-> "none", is_trusted_delegate |-> FALSE,
               holds |-> WhitelistLookup(address, whitelist, expect)]
    /\ UNCHANGED workerVars

NextAddr ==
    \/ \E to \in Addresses, operation \in {0, 1} : CallCheckDelegateCall(to, operation)
    \/ \E to \in Addresses, operation \in {0, 1} : CallGetCallTypeInfo(to, operation)
    \/ \E a \in Addresses, w \in Whitelists, e \in {"present", "missing"} :
          CallWhitelistLookup(a, w, e)

SpecAddr == InitAddr /\ [][NextAddr]_vars


\* --------------------------------------------------------- safe assessment

\* a SafeAssessmentRequest, by what the validations read of it: whether the
\* address has the form of one, the number of owners, the threshold, the
\* sanctions results, whether factory, mastercopy, initializer and fallback
\* handler are canonical, what the chain says against the API, the modules
Requests ==
    [address_ok : BOOLEAN, owner_count : 0..MaxOwners, threshold : 0..(MaxOwners + 1),
     sanctions : {"none", "clear", "sanctioned"},
     factory_ok : BOOLEAN, mastercopy_ok : BOOLEAN, initializer_ok : BOOLEAN,
     fallback_ok : BOOLEAN, multisig_info : {"none", "agrees", "discrepancy"},
     modules : 0..MaxModules]

\* the SafeAssessmentResponse assess_safe starts from
NewAssessment ==
    [overall_risk |-> "medium", security_score |-> 70,
     address_validation |-> FALSE, ownership_validation |-> FALSE,
     sanctions_validation |-> FALSE, multisig_info_validation |-> FALSE,
     multisig_info_warnings |-> 0]

validate_address(request, assessment) ==
    IF request.address_ok
    THEN [assessment EXCEPT !.address_validation = TRUE]
    ELSE [assessment EXCEPT !.overall_risk = "critical", !.security_score = 0]

validate_ownership(request, assessment) ==
    IF request.owner_count = 0 \/ request.threshold = 0
          \/ request.threshold > request.owner_count
    THEN [assessment EXCEPT !.overall_risk = "critical"]
    ELSE [assessment EXCEPT !.ownership_validation = TRUE]

validate_sanctions(request, assessment) ==
    IF request.sanctions = "sanctioned"
    THEN [assessment EXCEPT !.sanctions_validation = FALSE, !.overall_risk = "critical"]
    ELSE IF request.sanctions = "clear"
    THEN [assessment EXCEPT !.sanctions_validation = TRUE]
    ELSE assessment

validate_multisig_info(request, assessment) ==
    IF request.multisig_info = "discrepancy"
    THEN [assessment EXCEPT !.multisig_info_warnings = 1, !.overall_risk = "critical"]
    ELSE IF request.multisig_info = "agrees"
    THEN [assessment EXCEPT !.multisig_info_validation = TRUE]
    ELSE assessment

\* score.max(0).min(100)
clamp_score(score) ==
    IF score < 0 THEN 0 ELSE IF score > 100 THEN 100 ELSE score

\* SafeAssessmentService::calculate_security_score; the early returns
\* assign the local score only
assessment_security_score(request, assessment) ==
    LET critical == [assessment EXCEPT !.overall_risk = "critical"]
        score == clamp_score(
                    70 + (IF request.factory_ok THEN 5 ELSE 0 - 15)
                       + (IF request.mastercopy_ok THEN 10 ELSE 0 - 20)
                       + (IF request.initializer_ok THEN 5 ELSE 0 - 15)
                       + (IF request.fallback_ok THEN 5 ELSE 0 - 10)
                       + (IF assessment.multisig_info_validation THEN 5 ELSE 0)
                       - 5 * request.modules)
    IN IF ~assessment.address_validation THEN critical
       ELSE IF ~assessment.sanctions_validation THEN critical
       ELSE IF ~assessment.ownership_validation THEN critical
       ELSE IF ~assessment.multisig_info_validation /\ assessment.multisig_info_warnings > 0
       THEN critical
       ELSE [assessment EXCEPT
               !.security_score = score,
               !.overall_risk = IF assessment.overall_risk = "critical" THEN "critical"
                                ELSE IF score >= 85 THEN "low"
                                ELSE IF score >= 70 THEN "medium"
                                ELSE IF score >= 50 THEN "high"
                                ELSE "critical"]

\* SafeAssessmentService::assess_safe
assess_safe(request) ==
    assessment_security_score(request,
        validate_multisig_info(request,
            validate_sanctions(request,
                validate_ownership(request,
                    validate_address(request, NewAssessment)))))

InitAssess ==
    /\ WorkerInit
    /\ call = [fn |-> "none", request |-> CHOOSE r \in Requests : TRUE]
    /\ ret = NewAssessment

\* one request per behaviour: assess_safe keeps nothing between requests
CallAssessSafe(request) ==
    /\ call.fn = "none"
    /\ call' = [fn |-> "assess_safe", request |-> request]
    /\ ret' = assess_safe(request)
    /\ UNCHANGED workerVars

NextAssess == \E request \in Requests : CallAssessSafe(request)

SpecAssess == InitAssess /\ [][NextAssess]_vars


\* ------------------------------------------------------- the Safe version

\* a version string is a sequence of characters
VersionChars == {" ", "v", "0", "1", "3", ".", "+", "x"}
Versions == UNION {[1..n -> VersionChars] : n \in 0..MaxVersionLen}

Digits == {"0", "1", "2", "3", "4", "5", "6", "7", "8", "9"}

digit_value(c) ==
    CASE c = "0" -> 0 [] c = "1" -> 1 [] c = "2" -> 2 [] c = "3" -> 3 [] c = "4" -> 4
      [] c = "5" -> 5 [] c = "6" -> 6 [] c = "7" -> 7 [] c = "8" -> 8 [] OTHER -> 9

\* str::trim
RECURSIVE trim_start(_)
trim_start(s) ==
    IF s # <<>> /\ Head(s) = " " THEN trim_start(Tail(s)) ELSE s

RECURSIVE trim_end(_)
trim_end(s) ==
    IF s # <<>> /\ s[Len(s)] = " " THEN trim_end(SubSeq(s, 1, Len(s) - 1)) ELSE s

trim(s) == trim_end(trim_start(s))

\* the part before the first occurrence of sep: split(sep).next()
RECURSIVE first_piece(_, _)
first_piece(s, sep) ==
    IF s = <<>> \/ Head(s) = sep THEN <<>>
    ELSE <<Head(s)>> \o first_piece(Tail(s), sep)

\* str::split(sep): the pieces, one more than the occurrences of sep
RECURSIVE split(_, _)
split(s, sep) ==
    LET piece == first_piece(s, sep)
    IN IF Len(piece) = Len(s) THEN <<piece>>
       ELSE <<piece>> \o split(SubSeq(s, Len(piece) + 2, Len(s)), sep)

\* parse_version: trim, remove every v and V, keep what precedes the first +
\* (split always yields a first piece, so unwrap_or("1.3.0") is never taken)
parse_version(version) ==
    first_piece(SelectSeq(trim(version), LAMBDA c : c \notin {"v", "V"}), "+")

\* s.parse::<u32>().ok(): the number, or -1 for None
RECURSIVE decimal(_, _)
decimal(s, acc) ==
    IF s = <<>> THEN acc ELSE decimal(Tail(s), 10 * acc + digit_value(Head(s)))

parse_u32(s) ==
    IF s # <<>> /\ \A k \in 1..Len(s) : s[k] \in Digits THEN decimal(s, 0) ELSE 0 - 1

\* v.split('.').filter_map(|s| s.parse().ok()).collect()
RECURSIVE parsed_parts(_)
parsed_parts(pieces) ==
    IF pieces = <<>> THEN <<>>
    ELSE IF parse_u32(Head(pieces)) >= 0
    THEN <<parse_u32(Head(pieces))>> \o parsed_parts(Tail(pieces))
    ELSE parsed_parts(Tail(pieces))

version_parts(v) == parsed_parts(split(v, "."))

\* the loop of compare_versions from position i on
RECURSIVE compare_parts(_, _, _)
compare_parts(p1, p2, i) ==
    IF i > Len(p1) /\ i > Len(p2) THEN 0
    ELSE LET a == IF i <= Len(p1) THEN p1[i] ELSE 0
             b == IF i <= Len(p2) THEN p2[i] ELSE 0
         IN IF a > b THEN 1
            ELSE IF a < b THEN 0 - 1
            ELSE compare_parts(p1, p2, i + 1)

compare_versions(v1, v2) == compare_parts(version_parts(v1), version_parts(v2), 1)

\* calculate_domain_hash: the type hash the domain separator is built with
domain_typehash(version) ==
    IF compare_versions(parse_version(version), <<"1", ".", "2", ".", "0">>) <= 0
    THEN "DOMAIN_SEPARATOR_TYPEHASH_OLD"
    ELSE "DOMAIN_SEPARATOR_TYPEHASH"

\* calculate_message_hash: the type hash the message is encoded with
safe_tx_typehash(version) ==
    IF compare_versions(parse_version(version), <<"1", ".", "0", ".", "0">>) < 0
    THEN "SAFE_TX_TYPEHASH_OLD"
    ELSE "SAFE_TX_TYPEHASH"

\* the type hashes calculate_all_hashes works with for a safe_version
typehashes(version) ==
    [domain |-> domain_typehash(version), message |-> safe_tx_typehash(version)]

InitVersion ==
    /\ WorkerInit
    /\ call = [fn |-> "none", version |-> <<>>]
    /\ ret = [domain |-> "none", message |-> "none"]

\* one call per behaviour: the hashes are computed from the arguments alone
CallCalculateAllHashes(version) ==
    /\ call.fn = "none"
    /\ call' = [fn |-> "calculate_all_hashes", version |-> version]
    /\ ret' = typehashes(version)
    /\ UNCHANGED workerVars

NextVersion ==
    /\ call.fn = "none"
    /\ \E version \in Versions : CallCalculateAllHashes(version)

SpecVersion == InitVersion /\ [][NextVersion]_vars


\* --------------------------------------------------------- the nonce store

\* tokio::time::Duration::from_secs(300) of the sweeper's interval
SweepPeriod == 300

\* the age, in seconds, from which cleanup_expired drops an entry
NonceTtl == 600

\* addresses as ethereum_nonce and ethereum_verify key them: lower-case hex
\* without "0x"
AuthAddresses == {"a1", "b2"}

Handlers == 1..MaxVerifies

\* no entry of the HashMap for an address
NoNonce == [nonce |-> 0, timestamp |-> 0]

\* NonceStore::new
NonceStore_new == [a \in AuthAddresses |-> NoNonce]

\* store.insert(address, (nonce, Instant::now()))
store_nonce(store, address, nonce, now) ==
    [store EXCEPT ![address] = [nonce |-> nonce, timestamp |-> now]]

\* store.get(address).map(|(nonce, _)| nonce.clone()); 0 is None
get_nonce(store, address) == store[address].nonce

\* store.remove(address)
remove_nonce(store, address) == [store EXCEPT ![address] = NoNonce]

\* variant: an entry is kept up to and including the age of NonceTtl
cleanup_expired_inclusive(store, now) ==
    [a \in AuthAddresses |->
        IF store[a] # NoNonce /\ now - store[a].timestamp <= NonceTtl
        THEN store[a] ELSE NoNonce]

\* store.retain(|_, (_, timestamp)| now.duration_since(*timestamp).as_secs() < 600)
cleanup_expired(store, now) ==
    [a \in AuthAddresses |->
        IF store[a] # NoNonce /\ now - store[a].timestamp < NonceTtl
        THEN store[a] ELSE NoNonce]

\* a request handler of ethereum_verify that has not been called
IdleHandler == [pc |-> "idle", address |-> "a1", stored_nonce |-> 0, status |-> 0]

\* ret is the server: the nonce store, the clock in seconds, the deadline of
\* the sweeper's interval, the nonces generated, the responses 200 given on
\* each nonce, and the ages of the entries the last sweep dropped.
\* call is the ethereum_verify requests in flight.
InitAuth ==
    /\ WorkerInit
    /\ call = [h \in Handlers |-> IdleHandler]
    /\ ret = [store |-> NonceStore_new, now |-> 0, next_sweep |-> 0, issued |-> 0,
              verified |-> [n \in 1..MaxNonces |-> 0], dropped |-> {}]

Earliest(a, b) == IF a < b THEN a ELSE b

\* time passes, up to the next deadline of the sweeper's interval
Tick ==
    /\ ret.now < MaxTime
    /\ ret.now < ret.next_sweep
    /\ ret' = [ret EXCEPT !.now = Earliest(ret.now + TimeStep, ret.next_sweep)]
    /\ UNCHANGED <<workerVars, call>>

\* the sweeper task of main: interval.tick() completes at the start and
\* every SweepPeriod after it, and cleanup_expired runs
Sweep ==
    /\ ret.now = ret.next_sweep
    /\ ret' = [ret EXCEPT !.store = cleanup_expired(ret.store, ret.now),
                          !.next_sweep = ret.next_sweep + SweepPeriod,
                          !.dropped = {ret.now - ret.store[a].timestamp :
                                         a \in {b \in AuthAddresses :
                                            /\ ret.store[b] # NoNonce
                                            /\ cleanup_expired(ret.store, ret.now)[b]
                                                    = NoNonce}}]
    /\ UNCHANGED <<workerVars, call>>

\* ethereum_nonce: generate_nonce gives a UUID no earlier call gave
ethereum_nonce(address) ==
    /\ ret.issued < MaxNonces
    /\ ret' = [ret EXCEPT !.issued = ret.issued + 1,
                          !.store = store_nonce(ret.store, address,
                                                ret.issued + 1, ret.now)]
    /\ UNCHANGED <<workerVars, call>>

\* ethereum_verify, to its first await: verify_ethereum_signature recovers
\* the address, or fails and the response is 401
ethereum_verify(h, address, signed) ==
    /\ call[h].pc = "idle"
    /\ call' = [call EXCEPT ![h] =
                    IF signed
                    THEN [IdleHandler EXCEPT !.pc = "get_nonce", !.address = address]
                    ELSE [IdleHandler EXCEPT !.pc = "done", !.address = address,
                                             !.status = 401]]
    /\ UNCHANGED <<workerVars, ret>>

\* state.nonce_store.get_nonce(&address_lower).await, 401 on None
VerifyGetNonce(h) ==
    /\ call[h].pc = "get_nonce"
    /\ call' = [call EXCEPT ![h] =
                    IF get_nonce(ret.store, call[h].address) = 0
                    THEN [@ EXCEPT !.pc = "done", !.status = 401]
                    ELSE [@ EXCEPT !.pc = "remove_nonce",
                                   !.stored_nonce = get_nonce(ret.store, call[h].address)]]
    /\ UNCHANGED <<workerVars, ret>>

\* state.nonce_store.remove_nonce(&address_lower).await and the rest of the
\* handler: the user is found or inserted and the response is 200
VerifyRemoveNonce(h) ==
    /\ call[h].pc = "remove_nonce"
    /\ call' = [call EXCEPT ![h] = [@ EXCEPT !.pc = "done", !.status = 200]]
    /\ ret' = [ret EXCEPT !.store = remove_nonce(ret.store, call[h].address),
                          !.verified[call[h].stored_nonce] = @ + 1]
    /\ UNCHANGED workerVars

NextAuth ==
    \/ Tick
    \/ Sweep
    \/ \E address \in AuthAddresses : ethereum_nonce(address)
    \/ \E h \in Handlers, address \in AuthAddresses, signed \in BOOLEAN :
          ethereum_verify(h, address, signed)
    \/ \E h \in Handlers : VerifyGetNonce(h)
    \/ \E h \in Handlers : VerifyRemoveNonce(h)

SpecAuth == InitAuth /\ [][NextAuth]_vars


\* ------------------------------------------------------------------ claims

RECURSIVE BagCount(_, _)
BagCount(B, S) ==
    IF S = {} THEN 0
    ELSE LET x == CHOOSE y \in S : TRUE IN B[x] + BagCount(B, S \ {x})

\* the number of notification_status rows with the key of row r
KeyCount(r) ==
    BagCount(notification_status,
             { x \in BagToSet(notification_status) :
                 /\ x.transaction_hash = r.transaction_hash
                 /\ x.group = r.group
                 /\ x.monitor_id = r.monitor_id })

Delivered(h, m) ==
    \E e \in dispatchLog : e.transaction_hash = h /\ e.monitor_id = m /\ e.delivered

PendingOf(l) == { pending_transactions(l.txs)[i] : i \in 1..Len(pending_transactions(l.txs)) }
MonitorsOf(l) == { l.mons[j] : j \in 1..Len(l.mons) }

\* C1: across cycles, with groups processed concurrently and cycles failing
\* part-way, notification_status holds at most one row per
\* (transactionHash, safeAddress, network, monitorId).
AtMostOneRowPerKey ==
    \A r \in BagToSet(notification_status) : KeyCount(r) <= 1

\* a second cycle went over a pending transaction that already had its row,
\* while the other group of that cycle failed
AtMostOneRowPerKey_Witness ==
    /\ cycle = 2
    /\ concurrency >= 2
    /\ \E g \in Groups, h \in Groups :
         /\ task[g].pc = "ok"
         /\ task[h].pc = "err"
         /\ \E tx \in PendingOf(task[g]) :
              \E e \in dispatchLog : e.transaction_hash = tx.safe_tx_hash /\ e.cycle = 1
                 /\ key_exists(notification_status, tx.safe_tx_hash, g, e.monitor_id)

\* C2: a notification_status row for (transaction, monitor) is written only if
\* at least one channel of the monitor succeeded in a dispatch of it.
RowOnlyAfterDelivery ==
    \A r \in BagToSet(notification_status) : Delivered(r.transaction_hash, r.monitor_id)

\* every dispatch so far succeeded on a channel and has its row
AllDeliveredAndRecorded ==
    \A e \in dispatchLog :
       /\ e.delivered
       /\ key_exists(notification_status, e.transaction_hash, e.transaction_hash[1], e.monitor_id)

\* C3: once a group has been processed without error, every monitor of the
\* group has been dispatched, and has a row for, each pending transaction whose
\* alert class it opts into (also when other monitors of the Safe have their
\* row already), and nothing is dispatched again after its row.  Stated for
\* the runs in which every dispatch so far was delivered and recorded.
EveryOptedMonitorNotified ==
    /\ \A g \in Groups :
         (task[g].pc = "ok" /\ AllDeliveredAndRecorded) =>
           \A tx \in PendingOf(task[g]), m \in MonitorsOf(task[g]) :
              should_notify(alert_of(tx), monitors[m].settings) =>
                 /\ key_exists(notification_status, tx.safe_tx_hash, g, m)
                 /\ \E e \in dispatchLog : e.transaction_hash = tx.safe_tx_hash /\ e.monitor_id = m
    /\ \A e \in dispatchLog : ~e.after_row

\* C4: a dispatch of which every channel failed in one cycle is attempted again
\* in the next cycle in which the transaction is still returned as non-executed.
FailedDispatchRetried ==
    \A g \in Groups :
       task[g].pc = "ok" =>
         \A e \in dispatchLog :
            ( /\ e.cycle = cycle - 1
              /\ e.channels > 0
              /\ ~Delivered(e.transaction_hash, e.monitor_id)
              /\ e.monitor_id \in MonitorsOf(task[g])
              /\ \E tx \in PendingOf(task[g]) : tx.safe_tx_hash = e.transaction_hash )
            => \E f \in dispatchLog : /\ f.transaction_hash = e.transaction_hash
                                      /\ f.monitor_id = e.monitor_id
                                      /\ f.cycle = cycle

\* C5: when run_check has returned, every group of the cycle has been
\* processed, whether it failed or not, and run_check returned Ok.
GroupFailureNeverHaltsCycle ==
    (mainPc = "await_tick" /\ \E g \in Groups : task[g].pc # "idle") =>
       /\ \A g \in Groups : task[g].pc \in {"idle", "ok", "err"}
       /\ runResult = "ok"

GroupFailureNeverHaltsCycle_Witness ==
    /\ mainPc = "await_tick"
    /\ runResult = "ok"
    /\ \E g \in Groups, h \in Groups : task[g].pc = "err" /\ task[h].pc = "ok"

\* C6: should_notify is true exactly for a suspicious alert, for a management
\* alert with notifyManagement absent (or null) or true, and for a normal alert
\* with notifyAll true.
ShouldNotifyExactly ==
    call.fn = "should_notify" =>
       ret.flag = ( \/ call.a = "suspicious"
                    \/ call.a = "management" /\ call.c \in {Absent, Null, JTrue}
                    \/ call.a = "normal" /\ call.b = JTrue )

ShouldNotifyExactly_Witness ==
    /\ call.fn = "should_notify"
    /\ call.a = "suspicious" /\ call.b = JFalse /\ call.c = JFalse
    /\ ret.flag

\* C7: the alert is suspicious iff the risk level is high or critical, else
\* management iff the method is one of addOwner, addOwnerWithThreshold,
\* removeOwner, swapOwner, changeThreshold, enableModule, disableModule,
\* setGuard, setFallbackHandler, changeMasterCopy, setup, else normal.
AlertTypeAsSpecified ==
    call.fn = "determine_alert_type" =>
       ret.name = IF call.a \in {"high", "critical"} THEN "suspicious"
                  ELSE IF call.b \in { "addOwner", "addOwnerWithThreshold", "removeOwner", "swapOwner",
                                       "changeThreshold", "enableModule", "disableModule", "setGuard",
                                       "setFallbackHandler", "changeMasterCopy", "setup" }
                       THEN "management"
                       ELSE "normal"

\* the response fetched for l is stored already, for every monitor of l
AlreadyStored(l) ==
    \A i \in 1..Len(l.txs), j \in 1..Len(l.mons) :
       \E r \in BagToSet(transactions) : /\ r.safe_tx_hash = l.txs[i].safe_tx_hash
                                         /\ r.monitor_id = l.mons[j]
                                         /\ r.is_executed = l.txs[i].is_executed

StripUpdatedAt(r) ==
    [safe_tx_hash |-> r.safe_tx_hash, monitor_id |-> r.monitor_id,
     is_executed |-> r.is_executed, created_at |-> r.created_at]

OneRowPerTxAndMonitor(rows) ==
    \A r \in BagToSet(rows) :
       BagCount(rows, { x \in BagToSet(rows) : x.safe_tx_hash = r.safe_tx_hash
                                               /\ x.monitor_id = r.monitor_id }) = 1

StorageIdempotentStep ==
    \A g \in Groups :
       ( /\ task[g].pc = "last_check"
         /\ task'[g].pc \in Finished
         /\ task'[g].fetched
         /\ AlreadyStored(task'[g]) )
       => /\ BagCardinality(transactions') = BagCardinality(transactions)
          /\ { StripUpdatedAt(r) : r \in BagToSet(transactions') }
               = { StripUpdatedAt(r) : r \in BagToSet(transactions) }
          /\ OneRowPerTxAndMonitor(transactions')

\* C8: a run of a group over an indexer response that is already stored for
\* the same monitors adds no transactions row and changes updated_at only;
\* there is one row per (safeTxHash, monitorId) throughout.
TransactionStorageIdempotent ==
    [][StorageIdempotentStep]_vars

\* a second cycle has gone over a stored transaction: its row is the one of
\* the first cycle with updated_at moved
TransactionStorageIdempotent_Witness ==
    /\ cycle = 2
    /\ \E g \in Groups :
         /\ task[g].pc = "ok"
         /\ task[g].txs # <<>>
         /\ \A i \in 1..Len(task[g].txs), j \in 1..Len(task[g].mons) :
              \E r \in BagToSet(transactions) :
                 /\ r.safe_tx_hash = task[g].txs[i].safe_tx_hash
                 /\ r.monitor_id = task[g].mons[j]
                 /\ r.created_at = 1 /\ r.updated_at = 2
         /\ BagCardinality(transactions) >= Len(task[g].txs) * Len(task[g].mons)
         /\ OneRowPerTxAndMonitor(transactions)

\* C9: at every instant the number of groups whose processing has started and
\* not finished is at most the configured concurrency.
InFlightWithinConcurrency ==
    Cardinality(InFlight(task)) <= concurrency

\* the limit is reached while a further group waits in the stream
InFlightWithinConcurrency_Witness ==
    /\ Cardinality(InFlight(task)) = concurrency
    /\ queue # {}

\* what one step may do to the cycle in progress
CycleStep ==
    /\ cycle' # cycle => ~InCheck
    /\ (InCheck /\ mainPc' \notin {"initial_check", "scheduled_check"}) =>
          /\ queue = {}
          /\ \A g \in Groups : task[g].pc \in {"idle", "ok", "err"}
    /\ \A g \in Groups : task[g].pc \in Running => task'[g].pc \in Running \cup Finished

\* C10: a new cycle starts only when no cycle is running, and a running cycle
\* is left only when all its groups have been processed; a tick that elapses
\* meanwhile changes neither.
CyclesNeitherOverlapNorCancelled ==
    [][CycleStep]_vars

\* a tick elapsed during the last cycle, which then ran to its end
CyclesNeitherOverlapNorCancelled_Witness ==
    /\ mainPc = "await_tick"
    /\ cycle = MaxCycles
    /\ tickAvail > 0
    /\ \E g \in Groups : task[g].pc = "ok"

\* C11: a record_notification whose (transactionHash, safeAddress, network,
\* monitorId) is in notification_status already returns Ok to its caller.
ConflictSwallowed ==
    (call.fn = "record_notification" /\ call.a = "conflict") => ret.flag

\* the monitors of a run for which transaction tx has no transactions row
Unstored(l, tx) ==
    { m \in MonitorsOf(l) :
        ~\E r \in BagToSet(transactions) : r.safe_tx_hash = tx.safe_tx_hash /\ r.monitor_id = m }

\* C12: when a database error ends a group in its storing loop, the error
\* cost one unit only: every returned transaction is stored for all the
\* monitors of the group but at most the one whose insert failed.
DbErrorAbortsOnlyItsUnit ==
    \A g \in Groups :
       (task[g].pc = "err" /\ task[g].fetched /\ ~task[g].stored) =>
          \A i \in 1..Len(task[g].txs) : Cardinality(Unstored(task[g], task[g].txs[i])) <= 1

\* the findings of a list, by position
CriticalOrP0(d) == \E i \in 1..Len(d) : d[i].severity = "critical" \/ d[i].priority = "P0"
SomeHigh(d) == \E i \in 1..Len(d) : d[i].severity = "high"
MediumAt(d) == { i \in 1..Len(d) : d[i].severity = "medium" }

RiskAsClaimed(d) ==
    IF CriticalOrP0(d) THEN [risk_level |-> "critical", is_suspicious |-> TRUE, priority |-> "P0"]
    ELSE IF SomeHigh(d) THEN [risk_level |-> "high", is_suspicious |-> TRUE, priority |-> "none"]
    ELSE IF \E i \in MediumAt(d), j \in MediumAt(d) : i # j
         THEN [risk_level |-> "medium", is_suspicious |-> TRUE, priority |-> "none"]
    ELSE IF MediumAt(d) # {}
         THEN [risk_level |-> "medium", is_suspicious |-> FALSE, priority |-> "none"]
    ELSE [risk_level |-> "low", is_suspicious |-> FALSE, priority |-> "none"]

\* C13: calculate_risk_level and the calculate-security-score built-in give
\* critical/suspicious/P0 when a finding is critical or P0, else
\* high/suspicious when one is high, else medium/suspicious for more than one
\* medium, medium/not suspicious for exactly one, else low/not suspicious.
RiskAggregationExact ==
    /\ ret.service = RiskAsClaimed(call.details)
    /\ ret.builtin = RiskAsClaimed(call.details)

\* a single medium finding among lower ones: medium, not suspicious
RiskAggregationExact_Witness ==
    /\ Cardinality(MediumAt(call.details)) = 1
    /\ Len(call.details) = MaxFindings
    /\ ~CriticalOrP0(call.details) /\ ~SomeHigh(call.details)
    /\ ret.service = [risk_level |-> "medium", is_suspicious |-> FALSE, priority |-> "none"]
    /\ ret.builtin = ret.service

\* the order low < medium < high < critical, and the level of a severity
RiskRank(r) == CASE r = "critical" -> 3 [] r = "high" -> 2 [] r = "medium" -> 1 [] OTHER -> 0
MaxRisk(r, q) == IF RiskRank(q) > RiskRank(r) THEN q ELSE r
SeverityLevel(sev) == IF sev \in {"medium", "high", "critical"} THEN sev ELSE "low"
Added == call'.details[Len(call'.details)]

\* the claim as stated: the new risk is max(r, map(s)) for every finding
MaxOfRiskAndSeverityStep ==
    /\ ret'.service.risk_level = MaxRisk(ret.service.risk_level, SeverityLevel(Added.severity))
    /\ ret'.builtin.risk_level = MaxRisk(ret.builtin.risk_level, SeverityLevel(Added.severity))
    /\ ret'.calc.risk_level = MaxRisk(ret.calc.risk_level, SeverityLevel(Added.severity))

AggregationIsMaxOfSeverity ==
    [][MaxOfRiskAndSeverityStep]_vars

\* a finding of priority P0 makes the risk critical; any other finding of
\* severity s takes a risk r to max(r, map(s))
MonotonicStep ==
    LET expected(r) == IF Added.priority = "P0" THEN "critical"
                       ELSE MaxRisk(r, SeverityLevel(Added.severity))
    IN /\ ret'.service.risk_level = expected(ret.service.risk_level)
       /\ ret'.builtin.risk_level = expected(ret.builtin.risk_level)
       /\ ret'.calc.risk_level = expected(ret.calc.risk_level)

\* C14 (amended): adding a finding of severity s that is not of priority P0
\* to an analysis of risk r yields max(r, map(s)) under low < medium < high <
\* critical; a finding of priority P0 yields critical whatever its severity.
AggregationMonotonic ==
    [][MonotonicStep]_vars

\* a high finding was added to a medium analysis, then a low one
AggregationMonotonic_Witness ==
    /\ Len(call.details) = 3
    /\ call.details[1].severity = "medium" /\ call.details[2].severity = "high"
    /\ call.details[3].severity = "low"
    /\ \A i \in 1..3 : call.details[i].priority = "none"
    /\ ret.service.risk_level = "high"
    /\ ret.calc.risk_level = "high"

\* the findings of the verify-transaction-hash templates among the matches
HashFindings == SelectSeq(ret.matches, LAMBDA m : m.template_id = "hash-verification")

WithoutHashVerification(templates) ==
    SelectSeq(templates, LAMBDA t : t.builtin # "verify-transaction-hash")

\* C15: an evaluation whose chain_id or safe_version is missing has no
\* finding of the verify-transaction-hash built-in, and its matches (the
\* security score's risk level and is_suspicious among them) are those of
\* the catalogue without the verify-transaction-hash templates.
HashVerificationSkipped ==
    (call.fn = "evaluate_transaction"
        /\ (call.ctx.chain_id = "none" \/ call.ctx.safe_version = "none"))
    => /\ HashFindings = <<>>
       /\ \A k \in 1..Len(ret.matches) :
             ret.matches[k].output_type \notin {"hash_mismatch", "hash_verified"}
       /\ ret.matches = evaluate_transaction(
                            WithoutHashVerification(ret.transaction_templates), call.ctx)

\* chain_id is missing, the supplied hash differs from the computed one,
\* and the score after the hash verification is low and not suspicious
HashVerificationSkipped_Witness ==
    /\ call.fn = "evaluate_transaction"
    /\ call.ctx.chain_id = "none"
    /\ call.ctx.nonce = "7"
    /\ call.ctx.safeTxHash = "0xcd"
    /\ Len(ret.transaction_templates) = 2
    /\ ret.transaction_templates[1].builtin = "verify-transaction-hash"
    /\ ret.transaction_templates[2].builtin = "calculate-security-score"
    /\ Len(ret.matches) = 1
    /\ ret.matches[1].output_type = "security_score"
    /\ ret.matches[1].severity = "low"
    /\ ~ret.matches[1].is_suspicious

AllHashInputsPresent ==
    /\ call.fn = "evaluate_transaction"
    /\ call.ctx.chain_id # "none"
    /\ call.ctx.safe_version # "none"
    /\ call.ctx.nonce # "none"
    /\ call.ctx.safeTxHash # "none"

\* C16: with chain_id, safe_version, nonce and safeTxHash present, every
\* verify-transaction-hash template gives exactly one finding: hash_verified
\* of severity info when the computed hash equals the supplied one, else
\* hash_mismatch of severity critical and priority P0; the finding carries
\* the computed and the supplied hash.
HashFindingAsSpecified ==
    AllHashInputsPresent
    => /\ Len(HashFindings) =
            Len(SelectSeq(ret.transaction_templates,
                          LAMBDA t : t.builtin = "verify-transaction-hash"))
       /\ \A k \in 1..Len(HashFindings) :
            LET f == HashFindings[k]
                computed == calculate_all_hashes(call.ctx)
            IN /\ f.calculated = computed
               /\ computed # ""
               /\ f.api = call.ctx.safeTxHash
               /\ IF ascii_lowercase(computed) = ascii_lowercase(call.ctx.safeTxHash)
                  THEN f.output_type = "hash_verified" /\ f.severity = "info"
                  ELSE /\ f.output_type = "hash_mismatch"
                       /\ f.severity = "critical"
                       /\ f.priority = "P0"

\* C19: no template of the catalogue of a constructed engine names a
\* built-in that the registry does not have.
UnknownBuiltinRefused ==
    ret.started
    => \A k \in 1..Len(ret.transaction_templates) :
          ret.transaction_templates[k].builtin \in BuiltinRegistry \cup {"none"}

\* C20: without a "templates" directory the engine starts, with at least one
\* transaction template and at least one assessment template; and a start
\* is fatal only when one of the two catalogues is empty.
StartsFromEmbeddedCatalogue ==
    /\ (ret.started /\ ~ret.supplied /\ ~call.dir.exists)
        => /\ ~ret.panic
           /\ ret.transaction_templates # <<>>
           /\ ret.assessment_templates # <<>>
    /\ (ret.started /\ ~ret.supplied /\ ret.panic)
        => (ret.transaction_templates = <<>> \/ ret.assessment_templates = <<>>)

\* one address in another letter case
SameAddress(a, b) == to_lowercase(a) = to_lowercase(b)

\* C17: a delegate call to an address that is whitelisted up to letter case
\* is classified trusted, with no untrusted_delegate_call finding, and a
\* whitelist lookup answers the same for every casing of the address.
TrustedWhateverTheCase ==
    /\ (call.fn \in {"check_delegate_call", "get_call_type_info"}
           /\ call.operation = 1
           /\ \E key \in TRUSTED_DELEGATE_CALL_ADDRESSES \cup trusted_delegates :
                 SameAddress(call.to, key))
        => (ret.is_trusted_delegate /\ ret.finding # "untrusted_delegate_call")
    /\ call.fn = "WhitelistLookup"
        => \A b \in Addresses :
              SameAddress(call.to, b)
              => ret.holds = WhitelistLookup(b, call.whitelist, call.expect)

\* address_validation, sanctions_validation or ownership_validation is critical
CriticalCheck(request) ==
    \/ ~request.address_ok
    \/ request.sanctions = "sanctioned"
    \/ request.owner_count = 0
    \/ request.threshold = 0
    \/ request.threshold > request.owner_count

\* C18: an assessment one of whose address, sanctions and ownership
\* validations is critical has security score 0 and overall risk critical.
CriticalCheckShortCircuits ==
    (call.fn = "assess_safe" /\ CriticalCheck(call.request))
    => (ret.security_score = 0 /\ ret.overall_risk = "critical")

\* C26: after a group has been processed without error, every user who owns
\* a monitor of the group has a security_analyses row for every transaction
\* the indexer returned for the group.
AnalysisRowPerUser ==
    \A g \in Groups :
       task[g].pc = "ok" =>
         \A k \in 1..Len(task[g].txs), m \in MonitorsOf(task[g]) :
            \E r \in security_analyses :
               /\ r.transaction_hash = task[g].txs[k].safe_tx_hash
               /\ r.group = g
               /\ r.user_id = monitors[m].user_id

\* C27: for every monitor there is a transaction whose method is in the
\* management list that analyze_transaction followed by determine_alert_type
\* labels management, so that the monitor is sent it exactly when its
\* notifyManagement is not false.
NotifyManagementEffective ==
    \A m \in MonitorIds :
       monitors[m] # NoMonitor =>
         \E method \in management_methods, findings \in RiskLevels :
            LET alert == determine_alert_type(analyze_transaction(method, findings), method)
            IN /\ alert = "management"
               /\ should_notify(alert, monitors[m].settings)
                    = (monitors[m].settings.notifyManagement # JFalse)

\* the score of the checks other than address, sanctions and ownership
ScoreOfChecks(request) ==
    LET sum == 70 + (IF request.factory_ok THEN 5 ELSE 0 - 15)
                  + (IF request.mastercopy_ok THEN 10 ELSE 0 - 20)
                  + (IF request.initializer_ok THEN 5 ELSE 0 - 15)
                  + (IF request.fallback_ok THEN 5 ELSE 0 - 10)
                  + (IF request.multisig_info = "agrees" THEN 5 ELSE 0)
                  - 5 * request.modules
    IN IF sum < 0 THEN 0 ELSE IF sum > 100 THEN 100 ELSE sum

RiskOfScore(score) ==
    IF score >= 85 THEN "low"
    ELSE IF score >= 70 THEN "medium"
    ELSE IF score >= 50 THEN "high"
    ELSE "critical"

\* C28: an assessment without sanctions results, whose address and ownership
\* are valid and whose chain data does not contradict the API, has the
\* overall risk that the score of its remaining checks gives.
SanctionsAbsenceNotDecisive ==
    (/\ call.fn = "assess_safe"
     /\ call.request.sanctions = "none"
     /\ ~CriticalCheck(call.request)
     /\ call.request.multisig_info # "discrepancy")
    => ret.overall_risk = RiskOfScore(ScoreOfChecks(call.request))

\* a version number: digits, then any number of a dot and digits
RECURSIVE AllNumbers(_)
AllNumbers(pieces) ==
    pieces = <<>> \/ (/\ Head(pieces) # <<>>
                      /\ \A k \in 1..Len(Head(pieces)) : Head(pieces)[k] \in Digits
                      /\ AllNumbers(Tail(pieces)))

\* what remains of the string when an initial v or V and anything from the
\* first + on are dropped is a version number
ValidVersion(version) ==
    LET t == trim(version)
        u == IF t # <<>> /\ Head(t) \in {"v", "V"} THEN Tail(t) ELSE t
    IN AllNumbers(split(first_piece(u, "+"), "."))

\* C29: for an empty or invalid safe_version the hashes are computed with the
\* type hashes that "1.3.0" gives, DOMAIN_SEPARATOR_TYPEHASH (with the chain
\* id) and SAFE_TX_TYPEHASH.
InvalidVersionIsCurrent ==
    (call.fn = "calculate_all_hashes" /\ ~ValidVersion(call.version))
    => /\ ret = typehashes(<<"1", ".", "3", ".", "0">>)
       /\ ret.domain = "DOMAIN_SEPARATOR_TYPEHASH"
       /\ ret.message = "SAFE_TX_TYPEHASH"

\* the templates of the catalogue whose condition_groups is not empty
GroupedTemplates ==
    {ret.transaction_templates[k] : k \in
        {j \in 1..Len(ret.transaction_templates) :
            /\ ret.transaction_templates[j].builtin = "none"
            /\ ret.transaction_templates[j].condition_groups # <<>>}}

\* the number of groups of a template that match the context
MatchingGroups(template, ctx) ==
    Cardinality({k \in 1..Len(template.condition_groups) :
        evaluate_condition_group(template.condition_groups[k], ctx)})

\* C25: in an evaluation, a template with condition groups has one finding
\* per matching group (for each time it is in the catalogue), each with the
\* output type of one of its groups, and none from its flat conditions.
GroupsReplaceFlatConditions ==
    call.fn = "evaluate_transaction"
    => \A template \in GroupedTemplates :
          LET found == SelectSeq(ret.matches,
                                 LAMBDA m : m.template_id = template.id)
              copies == Len(SelectSeq(ret.transaction_templates,
                                      LAMBDA t : t = template))
          IN /\ Len(found) = copies * MatchingGroups(template, call.ctx)
             /\ \A k \in 1..Len(found) :
                   \E g \in 1..Len(template.condition_groups) :
                      found[k].output_type = template.condition_groups[g].output_type

\* C24: in an evaluation, no template with a built-in stands in the
\* catalogue before a template without one, and no finding of a template
\* without a built-in follows a finding of a built-in.
BuiltinsAfterPureRules ==
    call.fn = "evaluate_transaction"
    => /\ \A i, j \in 1..Len(ret.transaction_templates) :
             (i < j /\ ret.transaction_templates[i].builtin # "none")
             => ret.transaction_templates[j].builtin # "none"
       /\ \A p, q \in 1..Len(ret.matches) :
             (p < q /\ ret.matches[p].output_type
                          \in {"security_score", "hash_mismatch", "hash_verified"})
             => ret.matches[q].output_type
                   \in {"security_score", "hash_mismatch", "hash_verified"}

\* C23: a stored nonce is answered with 200 by at most one ethereum_verify.
NonceSingleUse ==
    \A n \in 1..MaxNonces :
        ret.issued >= n => ret.verified[n] <= 1

\* the entries of the nonce store
StoredAddresses == {a \in AuthAddresses : ret.store[a] # NoNonce}

\* a run of the sweeper: a step that moves the deadline of its interval
SweepRuns == ret'.next_sweep # ret.next_sweep

\* C30: the sweeper runs at the start and every 300 seconds after it; each
\* run removes the entries whose age is 600 seconds or more and keeps the
\* younger ones; and no entry of the store is older than 900 seconds.
NonceEntriesExpire ==
    /\ [](/\ ret.now <= ret.next_sweep
          /\ ret.next_sweep - ret.now <= 300
          /\ ret.next_sweep % 300 = 0
          /\ \A a \in StoredAddresses : ret.now - ret.store[a].timestamp <= 900)
    /\ [][SweepRuns =>
            /\ ret.now = ret.next_sweep
            /\ ret'.next_sweep = ret.next_sweep + 300
            /\ \A a \in StoredAddresses :
                  IF ret.now - ret.store[a].timestamp >= 600
                  THEN ret'.store[a] = NoNonce
                  ELSE ret'.store[a] = ret.store[a]]_vars

\* the sweep at 900 seconds has dropped an entry stored at 150 seconds, which
\* the sweeps at 300 and at 600 seconds had kept, and has kept a younger one
NonceEntriesExpire_Witness ==
    /\ ret.now = 900
    /\ ret.next_sweep = 1200
    /\ ret.dropped = {750}
    /\ \E a \in StoredAddresses : ret.now - ret.store[a].timestamp = 450

\* the positions of the history at which an operation was awaited
Awaits(ops) == {p \in 1..Len(call) : call[p].op \in ops}

\* the transactions the indexer returns for the Safe and the monitors of its group
Returned == fetch_all_transactions(StepGroup)
GroupMonitors == task[StepGroup].mons

\* the hashes of the history's store_transaction calls for one monitor, in order
StoredFor(m) ==
    LET calls == SelectSeq(call, LAMBDA e : e.op = "store_tx" /\ e.monitor = m)
    IN [k \in 1..Len(calls) |-> calls[k].hash]

IsPrefix(s, t) == Len(s) <= Len(t) /\ \A k \in 1..Len(s) : s[k] = t[k]

\* C21: in a run of process_safe every update_last_check comes before any
\* other await and, once a transaction is stored, has returned Ok for every
\* monitor of the group; the transactions are stored in the order the
\* indexer returned them, each for the monitors in their order; and when a
\* notification is sent, every returned transaction has been stored for
\* every monitor of the group and its row is in the table.
PhasesOrdered ==
    /\ \A p \in Awaits({"last_check"}), q \in Awaits(Running \ {"last_check"}) : p < q
    /\ Awaits({"store_tx"}) # {}
        => \A k \in 1..Len(GroupMonitors) :
              \E p \in Awaits({"last_check"}) :
                 call[p].monitor = GroupMonitors[k] /\ call[p].ok
    /\ \A k \in 1..Len(GroupMonitors) :
          IsPrefix(StoredFor(GroupMonitors[k]),
                   [n \in 1..Len(Returned) |-> Returned[n].safe_tx_hash])
    /\ \A p, q \in Awaits({"store_tx"}) :
          (p < q /\ call[p].hash = call[q].hash) => call[p].monitor < call[q].monitor
    /\ \A s \in Awaits({"send"}) :
          \A n \in 1..Len(Returned), k \in 1..Len(GroupMonitors) :
             /\ \E p \in Awaits({"store_tx"}) :
                   /\ p < s
                   /\ call[p].ok
                   /\ call[p].hash = Returned[n].safe_tx_hash
                   /\ call[p].monitor = GroupMonitors[k]
             /\ \E r \in BagToSet(transactions) :
                   /\ r.safe_tx_hash = Returned[n].safe_tx_hash
                   /\ r.monitor_id = GroupMonitors[k]

\* two transactions were returned, both were stored for both monitors,
\* newest first, and a notification of the older one has been sent
PhasesOrdered_Witness ==
    /\ Len(Returned) = 2
    /\ Len(GroupMonitors) = 2
    /\ StoredFor(1) = <<Returned[1].safe_tx_hash, Returned[2].safe_tx_hash>>
    /\ StoredFor(2) = StoredFor(1)
    /\ Returned[1].safe_tx_hash = <<StepGroup, 2>>
    /\ \E s \in Awaits({"send"}) : call[s].hash = <<StepGroup, 1>> /\ call[s].ok

\* a monitor whose settings have no usable notificationChannels entry
Unusable(m) == ~parse_notification_channels(monitors[m].settings).ok

\* C22: when a run has ended and nothing failed in it but send_notifications
\* for monitors without usable channels, every other monitor of the group
\* that opts into the alert of a pending transaction has been sent it.
UnusableChannelsSkipped ==
    (/\ ret \in Finished
     /\ \A p \in 1..Len(call) :
           ~call[p].ok => (call[p].op = "send" /\ Unusable(call[p].monitor)))
    => \A n \in 1..Len(Returned), k \in 1..Len(GroupMonitors) :
          (/\ is_pending(Returned[n])
           /\ ~Unusable(GroupMonitors[k])
           /\ monitors[GroupMonitors[k]].settings.notificationChannels > 0
           /\ should_notify(alert_of(Returned[n]), monitors[GroupMonitors[k]].settings))
          => \E s \in Awaits({"send"}) :
                /\ call[s].ok
                /\ call[s].hash = Returned[n].safe_tx_hash
                /\ call[s].monitor = GroupMonitors[k]

====
